---- MODULE Spec2Model ----
(***************************************************************************)
(* POM version rewriting of workflow-scripts/update-consumer-dependency.py *)
(* A document is a sequence of one-character strings.  The three regular   *)
(* expressions of the script are matched character by character, and       *)
(* pattern.sub is modelled with Python's replacement-template expansion.   *)
(***************************************************************************)
EXTENDS Integers, Sequences, FiniteSets, TLC

\* ------------------------------------------------------------------------
\* Bounds of the checked input space
\* ------------------------------------------------------------------------
MaxBlocks == 2
MaxOthers == 2
MaxCalls == 2

\* ------------------------------------------------------------------------
\* Characters and literal texts
\* ------------------------------------------------------------------------
None == <<"None">>
ReError == "re.error"

Whitespace == {" ", "\n"}
Digits == {"0", "1", "2", "3", "4", "5", "6", "7", "8", "9"}
Letters == {"a", "b", "c", "d", "e", "f", "g", "h", "i", "j", "k", "l", "m",
            "n", "o", "p", "q", "r", "s", "t", "u", "v", "w", "x", "y", "z",
            "A", "B", "C", "D", "E", "F", "G", "H", "I", "J", "K", "L", "M",
            "N", "O", "P", "Q", "R", "S", "T", "U", "V", "W", "X", "Y", "Z"}

NParent == <<"p", "a", "r", "e", "n", "t">>
NDependency == <<"d", "e", "p", "e", "n", "d", "e", "n", "c", "y">>
NDependencies == <<"d", "e", "p", "e", "n", "d", "e", "n", "c", "i", "e", "s">>
NGroupId == <<"g", "r", "o", "u", "p", "I", "d">>
NArtifactId == <<"a", "r", "t", "i", "f", "a", "c", "t", "I", "d">>
NVersion == <<"v", "e", "r", "s", "i", "o", "n">>
NScope == <<"s", "c", "o", "p", "e">>
NRelativePath == <<"r", "e", "l", "a", "t", "i", "v", "e", "P", "a", "t", "h">>
NExclusions == <<"e", "x", "c", "l", "u", "s", "i", "o", "n", "s">>
NExclusion == <<"e", "x", "c", "l", "u", "s", "i", "o", "n">>
SNAPSHOT == <<"S", "N", "A", "P", "S", "H", "O", "T">>

OpenTag(name) == <<"<">> \o name \o <<">">>
CloseTag(name) == <<"<", "/">> \o name \o <<">">>
EmptyTag(name) == <<"<">> \o name \o <<"/", ">">>
Element(name, text) == OpenTag(name) \o text \o CloseTag(name)

\* ------------------------------------------------------------------------
\* String helpers (str.strip, the "in" operator)
\* ------------------------------------------------------------------------
RECURSIVE LStrip(_)
LStrip(s) ==
    IF s # <<>> /\ Head(s) \in Whitespace THEN LStrip(Tail(s)) ELSE s

RECURSIVE RStrip(_)
RStrip(s) ==
    IF s # <<>> /\ s[Len(s)] \in Whitespace
    THEN RStrip(SubSeq(s, 1, Len(s) - 1))
    ELSE s

Strip(s) == RStrip(LStrip(s))

Contains(s, sub) ==
    \E i \in 1..(Len(s) - Len(sub) + 1) : SubSeq(s, i, i + Len(sub) - 1) = sub

\* ------------------------------------------------------------------------
\* Regular expressions.  A pattern is [pre, post]: the atoms of group 1,
\* then group 2 = [^<]+, then the literal of group 3.
\* ------------------------------------------------------------------------
\* re.escape: every character of the coordinate or property name matches
\* only itself.
CharMatchesUnescaped(pc, ch) == pc = "." \/ pc = ch

CharMatches(pc, ch) == pc = ch

Lit(chars) == [t |-> "lit", c |-> chars]
WsStar == [t |-> "ws", c |-> <<>>]
SkipElements == [t |-> "skip", c |-> <<>>]

\* literal atom at position i: position after it, or 0
MatchLit(s, i, chars) ==
    IF i + Len(chars) - 1 <= Len(s)
       /\ \A k \in 1..Len(chars) : CharMatches(chars[k], s[i + k - 1])
    THEN i + Len(chars)
    ELSE 0

\* \s* at position i: position after the whitespace run
RECURSIVE SkipWs(_, _)
SkipWs(s, i) ==
    IF i <= Len(s) /\ s[i] \in Whitespace THEN SkipWs(s, i + 1) ELSE i

\* [^<]* at position i: position of the next "<" or Len(s)+1
RECURSIVE SkipNotLt(_, _)
SkipNotLt(s, i) ==
    IF i <= Len(s) /\ s[i] # "<" THEN SkipNotLt(s, i + 1) ELSE i

\* one iteration of (?:<[^v][^<]*</[^<]*>\s*) at position i: position after
\* it, or 0.  The closing [^<]*> must end with ">" followed by whitespace
\* only, because the next atom of the pattern starts with "<".
SkipOneElement(s, i) ==
    IF i + 1 <= Len(s) /\ s[i] = "<" /\ s[i + 1] # "v"
    THEN LET j == SkipNotLt(s, i + 2)
         IN IF j + 1 <= Len(s) /\ s[j + 1] = "/"
            THEN LET k == SkipNotLt(s, j + 2)
                     body == RStrip(SubSeq(s, j + 2, k - 1))
                 IN IF body # <<>> /\ body[Len(body)] = ">" THEN k ELSE 0
            ELSE 0
    ELSE 0

\* (?:...)* greedy: as many iterations as match
RECURSIVE SkipElems(_, _)
SkipElems(s, i) ==
    LET n == SkipOneElement(s, i)
    IN IF n = 0 THEN i ELSE SkipElems(s, n)

RECURSIVE MatchAtoms(_, _, _, _)
MatchAtoms(s, i, atoms, k) ==
    IF k > Len(atoms) THEN i
    ELSE LET a == atoms[k]
             n == CASE a.t = "lit" -> MatchLit(s, i, a.c)
                    [] a.t = "ws" -> SkipWs(s, i)
                    [] a.t = "skip" -> SkipElems(s, i)
         IN IF n = 0 THEN 0 ELSE MatchAtoms(s, n, atoms, k + 1)

NoMatch == [found |-> FALSE, start |-> 0, g2 |-> 0, g3 |-> 0, end |-> 0]

\* match of the whole pattern at position i
MatchAt(s, i, pat) ==
    LET g2 == MatchAtoms(s, i, pat.pre, 1)
    IN IF g2 = 0 THEN NoMatch
       ELSE LET g3 == SkipNotLt(s, g2)
                e == IF g3 > g2 THEN MatchLit(s, g3, pat.post) ELSE 0
            IN IF e = 0 THEN NoMatch
               ELSE [found |-> TRUE, start |-> i, g2 |-> g2, g3 |-> g3,
                     end |-> e]

\* the leftmost of the positions where the pattern matches
Leftmost(s, hits, pat) ==
    IF hits = {} THEN NoMatch
    ELSE MatchAt(s, CHOOSE j \in hits : \A h \in hits : j <= h, pat)

\* every pattern begins with a literal: a match starts where its first
\* character stands
StartsAt(s, j, pat) == CharMatches(pat.pre[1].c[1], s[j])

\* pattern.search from position i on: the leftmost match
SearchFrom(s, i, pat) ==
    Leftmost(s, { j \in i..Len(s) :
                    StartsAt(s, j, pat) /\ MatchAt(s, j, pat).found }, pat)

Search(s, pat) == SearchFrom(s, 1, pat)

Group(s, m, n) ==
    CASE n = 1 -> SubSeq(s, m.start, m.g2 - 1)
      [] n = 2 -> SubSeq(s, m.g2, m.g3 - 1)
      [] n = 3 -> SubSeq(s, m.g3, m.end - 1)

\* ------------------------------------------------------------------------
\* Replacement templates: rf"\g<1>{new_version}\3" as parsed by re.sub
\* ------------------------------------------------------------------------
Backslash == "\\"

\* a template that names group 2 where group 3 is meant
TemplateWrongGroup(new_version) ==
    <<Backslash, "g", "<", "1", ">">> \o new_version \o <<Backslash, "2">>

Template(new_version) ==
    <<Backslash, "g", "<", "1", ">">> \o new_version \o <<Backslash, "3">>

GroupNumber(d) ==
    CASE d = "1" -> 1 [] d = "2" -> 2 [] d = "3" -> 3 [] OTHER -> 0

\* the text of the template for one match with groups g[1..3]; contains
\* ReError where the template parser raises re.error
OctDigits == {"0", "1", "2", "3", "4", "5", "6", "7"}

\* ESCAPES of the template parser: the character an escaped letter stands for
EscapeLetters == {"a", "b", "f", "n", "r", "t", "v"}

EscapeChar(c) ==
    CASE c = "n" -> "\n" [] c = "t" -> "\t" [] c = "r" -> "\r"
      [] c = "f" -> "\f" [] c = "a" -> "BEL" [] c = "b" -> "BS"
      [] c = "v" -> "VT"

\* the text of the template for one match with groups g[1..3]; contains
\* ReError where the template parser raises re.error, and "OCT" for a
\* character written as an octal escape
RECURSIVE ExpandTemplate(_, _)
ExpandTemplate(tpl, g) ==
    IF tpl = <<>> THEN <<>>
    ELSE IF Head(tpl) # Backslash
    THEN <<Head(tpl)>> \o ExpandTemplate(Tail(tpl), g)
    ELSE IF Len(tpl) = 1 THEN <<ReError>>
    ELSE LET c == tpl[2]
             rest == SubSeq(tpl, 3, Len(tpl))
             d1 == Len(rest) >= 1 /\ rest[1] \in Digits
             d2 == Len(rest) >= 2 /\ rest[2] \in Digits
         IN CASE c = "g" ->
                   \* \g<name>: only numeric names of existing groups resolve
                   IF Len(rest) >= 3 /\ rest[1] = "<" /\ rest[3] = ">"
                      /\ GroupNumber(rest[2]) # 0
                   THEN g[GroupNumber(rest[2])]
                        \o ExpandTemplate(SubSeq(rest, 4, Len(rest)), g)
                   ELSE <<ReError>>
              [] c = "0" ->
                   \* octal escape of up to three digits
                   <<"OCT">> \o ExpandTemplate(
                       SubSeq(rest, (IF d1 THEN IF d2 THEN 3 ELSE 2 ELSE 1),
                              Len(rest)), g)
              [] c \in Digits \ {"0"} ->
                   IF d1
                   THEN IF c \in OctDigits /\ rest[1] \in OctDigits
                           /\ Len(rest) >= 2 /\ rest[2] \in OctDigits
                        THEN <<"OCT">>
                             \o ExpandTemplate(SubSeq(rest, 3, Len(rest)), g)
                        ELSE <<ReError>>  \* two-digit group: above 3
                   ELSE IF GroupNumber(c) # 0
                   THEN g[GroupNumber(c)] \o ExpandTemplate(rest, g)
                   ELSE <<ReError>>       \* invalid group reference
              [] c = Backslash -> <<Backslash>> \o ExpandTemplate(rest, g)
              [] c \in EscapeLetters ->
                   <<EscapeChar(c)>> \o ExpandTemplate(rest, g)
              [] c \in Letters \ (EscapeLetters \cup {"g"}) -> <<ReError>>
              [] OTHER -> <<Backslash, c>> \o ExpandTemplate(rest, g)

\* pattern.sub(template, s): every non-overlapping match, left to right
RECURSIVE SubFrom(_, _, _, _)

\* the text from i on, with the next match m and all later ones replaced
SubMatch(s, i, m, pat, tpl) ==
    IF ~m.found THEN SubSeq(s, i, Len(s))
    ELSE SubSeq(s, i, m.start - 1)
         \o ExpandTemplate(tpl, <<Group(s, m, 1), Group(s, m, 2),
                                  Group(s, m, 3)>>)
         \o SubFrom(s, m.end, pat, tpl)

SubFrom(s, i, pat, tpl) == SubMatch(s, i, SearchFrom(s, i, pat), pat, tpl)

Sub(s, pat, tpl) == SubFrom(s, 1, pat, tpl)

Raised(text) == \E i \in 1..Len(text) : text[i] = ReError

\* ------------------------------------------------------------------------
\* The three patterns
\* ------------------------------------------------------------------------
_build_parent_pattern_any_version(group_id, artifact_id) ==
    [pre |-> << Lit(OpenTag(NVersion)) >>, post |-> CloseTag(NVersion)]

_build_parent_pattern(group_id, artifact_id) ==
    [pre |-> << Lit(OpenTag(NParent)), WsStar,
                Lit(Element(NGroupId, group_id)), WsStar,
                Lit(Element(NArtifactId, artifact_id)), WsStar,
                Lit(OpenTag(NVersion)) >>,
     post |-> CloseTag(NVersion)]

_build_dependency_pattern(group_id, artifact_id) ==
    [pre |-> << Lit(OpenTag(NDependency)), WsStar,
                Lit(Element(NGroupId, group_id)), WsStar,
                Lit(Element(NArtifactId, artifact_id)), WsStar,
                SkipElements,
                Lit(OpenTag(NVersion)) >>,
     post |-> CloseTag(NVersion)]

_build_property_pattern(prop_name) ==
    [pre |-> << Lit(OpenTag(prop_name)) >>, post |-> CloseTag(prop_name)]

\* PROPERTY_REF_PATTERN.match(v): the name inside ${...}, or None.
\* "." does not match a newline.
PropertyRef(v) ==
    IF Len(v) >= 4 /\ v[1] = "$" /\ v[2] = "{" /\ v[Len(v)] = "}"
       /\ \A i \in 3..(Len(v) - 1) : v[i] # "\n"
    THEN SubSeq(v, 3, Len(v) - 1)
    ELSE None

\* ------------------------------------------------------------------------
\* The rewriting functions.  A result is
\*   [updated, old_version, updated_poms, raised]
\* where updated_poms maps paths (indices) to new texts.
\* ------------------------------------------------------------------------
NoPoms == [p \in {} |-> <<>>]

\* the value of an expression computed once: the element of a one-element set
The(S) == CHOOSE x \in S : TRUE

Result(text, old, poms) ==
    [updated |-> text, old_version |-> old, updated_poms |-> poms,
     raised |-> FALSE]

\* a pattern.sub that may raise: nothing is returned when it raises
SubResult(text, old, poms) ==
    IF Raised(text) \/ \E p \in DOMAIN poms : Raised(poms[p])
    THEN [updated |-> <<>>, old_version |-> None, updated_poms |-> NoPoms,
          raised |-> TRUE]
    ELSE Result(text, old, poms)

update_parent_version(pom_content, group_id, artifact_id, new_version) ==
    LET pattern == _build_parent_pattern(group_id, artifact_id)
    IN The({
         IF ~match.found THEN Result(pom_content, None, NoPoms)
         ELSE The({
                IF old_version = new_version
                THEN Result(pom_content, None, NoPoms)
                ELSE IF Contains(old_version, SNAPSHOT)
                THEN Result(pom_content, None, NoPoms)
                ELSE SubResult(Sub(pom_content, pattern,
                                   Template(new_version)),
                               old_version, NoPoms)
              : old_version \in {Strip(Group(pom_content, match, 2))} })
       : match \in {Search(pom_content, pattern)} })

\* updated_poms[path] = ...
PomUpdate(path, content) == [p \in {path} |-> content]

\* a loop that goes on to the next file when a guard holds
RECURSIVE SearchOtherPomsPastGuards(_, _, _, _, _)
SearchOtherPomsPastGuards(pom_content, prop_pattern, new_version, all_pom_contents, path) ==
    IF path > Len(all_pom_contents) THEN Result(pom_content, None, NoPoms)
    ELSE The({
           IF prop_match.found
              /\ Strip(Group(content, prop_match, 2)) # new_version
              /\ ~Contains(Strip(Group(content, prop_match, 2)), SNAPSHOT)
           THEN SubResult(pom_content, Strip(Group(content, prop_match, 2)),
                          PomUpdate(path, Sub(content, prop_pattern,
                                              Template(new_version))))
           ELSE SearchOtherPomsPastGuards(pom_content, prop_pattern,
                                          new_version, all_pom_contents,
                                          path + 1)
         : prop_match \in {Search(all_pom_contents[path], prop_pattern)},
           content \in {all_pom_contents[path]} })

\* a loop that raises when no file defines the property
RECURSIVE SearchOtherPomsOrRaise(_, _, _, _, _)
SearchOtherPomsOrRaise(pom_content, prop_pattern, new_version, all_pom_contents, path) ==
    IF path > Len(all_pom_contents)
    THEN [updated |-> <<>>, old_version |-> None, updated_poms |-> NoPoms,
          raised |-> TRUE]
    ELSE The({
           IF prop_match.found
           THEN The({
                  IF old_version = new_version
                  THEN Result(pom_content, None, NoPoms)
                  ELSE IF Contains(old_version, SNAPSHOT)
                  THEN Result(pom_content, None, NoPoms)
                  ELSE SubResult(pom_content, old_version,
                                 PomUpdate(path, Sub(content, prop_pattern,
                                                     Template(new_version))))
                : old_version \in {Strip(Group(content, prop_match, 2))} })
           ELSE SearchOtherPomsOrRaise(pom_content, prop_pattern,
                                       new_version, all_pom_contents,
                                       path + 1)
         : prop_match \in {Search(all_pom_contents[path], prop_pattern)},
           content \in {all_pom_contents[path]} })

\* for path, content in all_pom_contents.items(): from path on
RECURSIVE SearchOtherPoms(_, _, _, _, _)
SearchOtherPoms(pom_content, prop_pattern, new_version, all_pom_contents, path) ==
    IF path > Len(all_pom_contents)
    THEN Result(pom_content, None, NoPoms)   \* ::warning:: not found
    ELSE The({
           IF prop_match.found
           THEN The({
                  IF old_version = new_version
                  THEN Result(pom_content, None, NoPoms)
                  ELSE IF Contains(old_version, SNAPSHOT)
                  THEN Result(pom_content, None, NoPoms)
                  ELSE SubResult(pom_content, old_version,
                                 PomUpdate(path, Sub(content, prop_pattern,
                                                     Template(new_version))))
                : old_version \in {Strip(Group(content, prop_match, 2))} })
           ELSE SearchOtherPoms(pom_content, prop_pattern, new_version,
                                all_pom_contents, path + 1)
         : prop_match \in {Search(all_pom_contents[path], prop_pattern)},
           content \in {all_pom_contents[path]} })

_update_property_version(pom_content, prop_name, new_version, all_pom_contents) ==
    LET prop_pattern == _build_property_pattern(prop_name)
    IN The({
         IF prop_match.found
         THEN The({
                IF old_version = new_version
                THEN Result(pom_content, None, NoPoms)
                ELSE IF Contains(old_version, SNAPSHOT)
                THEN Result(pom_content, None, NoPoms)
                ELSE SubResult(Sub(pom_content, prop_pattern,
                                   Template(new_version)),
                               old_version, NoPoms)
              : old_version \in {Strip(Group(pom_content, prop_match, 2))} })
         ELSE IF Len(all_pom_contents) > 0      \* if all_pom_contents:
         THEN SearchOtherPoms(pom_content, prop_pattern, new_version,
                              all_pom_contents, 1)
         ELSE Result(pom_content, None, NoPoms)    \* ::warning:: not found
       : prop_match \in {Search(pom_content, prop_pattern)} })

update_dependency_version(pom_content, group_id, artifact_id, new_version, all_pom_contents) ==
    LET pattern == _build_dependency_pattern(group_id, artifact_id)
    IN The({
         IF ~match.found THEN Result(pom_content, None, NoPoms)
         ELSE The({
                IF PropertyRef(old_version_raw) # None
                THEN _update_property_version(pom_content,
                                              PropertyRef(old_version_raw),
                                              new_version, all_pom_contents)
                ELSE IF old_version_raw = new_version
                THEN Result(pom_content, None, NoPoms)
                ELSE IF Contains(old_version_raw, SNAPSHOT)
                THEN Result(pom_content, None, NoPoms)
                ELSE SubResult(Sub(pom_content, pattern,
                                   Template(new_version)),
                               old_version_raw, NoPoms)
              : old_version_raw \in {Strip(Group(pom_content, match, 2))} })
       : match \in {Search(pom_content, pattern)} })

\* ------------------------------------------------------------------------
\* Input documents: a document is the text of a sequence of blocks
\* ------------------------------------------------------------------------
NoPad == <<>>
Indent == <<"\n", " ">>
NoVersion == <<"absent">>

V1 == <<"1">>
V2 == <<"2">>
V2Padded == <<" ", "2", "\n">>
V1Snapshot == <<"1", "-">> \o SNAPSHOT
PropP == <<"p">>
PropQ == <<"q">>
RefP == <<"$", "{", "p", "}">>
RefQ == <<"$", "{", "q", "}">>

GroupG == <<"g">>
GroupUpper == <<"G">>
ArtifactAB == <<"a", ".", "b">>
ArtifactAxB == <<"a", "x", "b">>

Block(kind, g, a, v, sib, ws, tail) ==
    [kind |-> kind, g |-> g, a |-> a, v |-> v, sib |-> sib, ws |-> ws,
     tail |-> tail]

\* the text of one block; sib places a sibling element before or after the
\* version element ("nested": a sibling with a child element, before it;
\* "swapped": no sibling, artifactId before groupId),
\* ws is the layout between child elements
RenderBlock(b) ==
    LET sibling == IF b.kind = "parent" THEN EmptyTag(NRelativePath)
                   ELSE Element(NScope, <<"t", "e", "s", "t">>)
        nested == Element(NExclusions, Element(NExclusion, <<"x">>))
        version == IF b.v = NoVersion THEN <<>>
                   ELSE Element(NVersion, b.v) \o b.ws
        children == (IF b.sib = "swapped"
                     THEN Element(NArtifactId, b.a) \o b.ws
                          \o Element(NGroupId, b.g) \o b.ws
                     ELSE Element(NGroupId, b.g) \o b.ws
                          \o Element(NArtifactId, b.a) \o b.ws)
                    \o (IF b.sib = "before" THEN sibling \o b.ws ELSE <<>>)
                    \o (IF b.sib = "nested" THEN nested \o b.ws ELSE <<>>)
                    \o version
                    \o (IF b.sib = "after" THEN sibling \o b.ws ELSE <<>>)
    IN CASE b.kind = "parent" ->
              OpenTag(NParent) \o b.ws \o children \o CloseTag(NParent)
         [] b.kind = "dependency" ->
              OpenTag(NDependency) \o b.ws \o children
              \o CloseTag(NDependency) \o b.tail
         [] b.kind = "property" -> Element(b.a, b.v)

RECURSIVE RenderDoc(_)
RenderDoc(blocks) ==
    IF blocks = <<>> THEN <<>>
    ELSE RenderBlock(Head(blocks)) \o RenderDoc(Tail(blocks))

ParentBlock(g, a, v, sib, ws) == Block("parent", g, a, v, sib, ws, <<>>)
DependencyBlock(g, a, v, sib, ws, tail) ==
    Block("dependency", g, a, v, sib, ws, tail)
PropertyBlock(name, v) == Block("property", <<>>, name, v, "none", NoPad, <<>>)

ParentPool ==
    { ParentBlock(GroupG, ArtifactAB, V1, "after", Indent),
      ParentBlock(GroupG, ArtifactAB, V1Snapshot, "none", NoPad),
      ParentBlock(GroupG, ArtifactAB, V2Padded, "none", NoPad),
      ParentBlock(GroupG, ArtifactAB, V1, "before", NoPad),
      ParentBlock(GroupG, ArtifactAxB, V1, "none", NoPad),
      ParentBlock(GroupUpper, ArtifactAB, V1, "none", NoPad),
      ParentBlock(GroupG, ArtifactAB, V1, "swapped", NoPad),
      ParentBlock(GroupG, ArtifactAB, NoVersion, "none", NoPad),
      PropertyBlock(NVersion, V1) }

DependencyPool ==
    { DependencyBlock(GroupG, ArtifactAB, V1, "after", Indent, <<>>),
      DependencyBlock(GroupG, ArtifactAB, V1Snapshot, "before", NoPad, <<>>),
      DependencyBlock(GroupG, ArtifactAB, RefP, "none", NoPad, <<>>),
      DependencyBlock(GroupG, ArtifactAB, V1, "nested", NoPad, <<>>),
      DependencyBlock(GroupG, ArtifactAB, NoVersion, "none", NoPad,
                      CloseTag(NDependencies) \o Element(NVersion, V1)),
      DependencyBlock(GroupG, ArtifactAxB, V1, "none", NoPad, <<>>),
      PropertyBlock(PropP, V1),
      PropertyBlock(PropP, V1Snapshot),
      PropertyBlock(PropP, RefQ) }

\* the other POM files of the repository define properties
OtherPool == { PropertyBlock(PropP, V1), PropertyBlock(PropP, V1Snapshot) }

SeqsUpTo(S, n) == UNION { [1..k -> S] : k \in 0..n }

\* target versions: valid ones, and ones a validator would reject
NewVersions ==
    { V1, V2, <<>>, <<" ", "2">>, <<Backslash, "1">> }

Coordinates == { <<GroupG, ArtifactAB>> }

\* ------------------------------------------------------------------------
\* State
\* ------------------------------------------------------------------------
VARIABLES scope, group_id, artifact_id, new_version,
          all_pom_contents, cur, layout, supplied,
          phase, calls, call_input,
          updated, old_version, updated_poms, raised

pom_vars == <<scope, group_id, artifact_id, new_version, all_pom_contents,
              cur, layout, supplied, phase, calls, call_input, updated,
              old_version, updated_poms, raised>>

\* the other scripts: where the script stands (at), its arguments, locals
\* and return value, and what it did to the outside (slept, gh calls)
VARIABLES at, timeout, poll_interval, elapsed, slept,
          results, prs, remaining, pos, final_results, resolved, repolled,
          last_status,
          response, wait, found, checks_failed, sleeps,
          project_yml, yaml_installed, config, pr_url, enabled, pr_result,
          gh_calls,
          open_prs, branch_prefix, exclude_branch, stale_prs, idx, closed,
          repo, contents, sha, version, old_sha, fpos, modified_files,
          desired, github, gh_codes, current, current_security, diff,
          all_passed, exit_code

clock_vars == <<timeout, poll_interval, elapsed, slept>>
verify_vars == <<results, prs, remaining, pos, final_results, resolved,
                 repolled, last_status>>
wait_vars == <<response, wait, found, checks_failed, sleeps>>
merge_vars == <<project_yml, yaml_installed, config, pr_url, enabled,
                pr_result>>
close_vars == <<open_prs, branch_prefix, exclude_branch, stale_prs, idx,
                closed>>
consumer_vars == <<merge_vars, close_vars, gh_calls>>
refs_vars == <<repo, contents, sha, version, old_sha, fpos, modified_files>>
settings_vars == <<desired, github, gh_codes, current, current_security,
                   diff, all_passed, exit_code>>
script_vars == <<at, clock_vars, verify_vars, wait_vars, consumer_vars,
                 refs_vars, settings_vars>>

\* what a script leaves alone: the variables of the others
not_verify == <<pom_vars, wait_vars, consumer_vars, refs_vars,
                settings_vars>>
not_wait == <<pom_vars, verify_vars, consumer_vars, refs_vars,
              settings_vars>>
not_consumer == <<pom_vars, clock_vars, verify_vars, wait_vars, refs_vars,
                  settings_vars>>
not_refs == <<pom_vars, clock_vars, verify_vars, wait_vars, consumer_vars,
              settings_vars>>
not_settings == <<pom_vars, clock_vars, verify_vars, wait_vars,
                  consumer_vars, refs_vars>>

vars == <<pom_vars, script_vars>>

\* make_result (consumer_update_utils.py lines 115-119); NoResult: nothing
\* returned yet
make_result(status, url, error) ==
    [status |-> status, pr_url |-> url, error |-> error]
NoResult == make_result("none", None, None)

ClockIdle == timeout = 0 /\ poll_interval = 0 /\ elapsed = 0 /\ slept = 0
VerifyIdle ==
    /\ results = <<>>
    /\ prs = <<>>
    /\ remaining = <<>>
    /\ pos = 0
    /\ final_results = <<>>
    /\ resolved = {}
    /\ repolled = FALSE
    /\ last_status = "none"
WaitIdle ==
    /\ response = "none"
    /\ wait = 0
    /\ found = "none"
    /\ checks_failed = 0
    /\ sleeps = 0
ConsumerIdle ==
    /\ project_yml = "none"
    /\ yaml_installed = FALSE
    /\ config = "none"
    /\ pr_url = "none"
    /\ enabled = "none"
    /\ pr_result = NoResult
    /\ gh_calls = <<>>
    /\ open_prs = <<>>
    /\ branch_prefix = <<>>
    /\ exclude_branch = <<>>
    /\ stale_prs = <<>>
    /\ idx = 0
    /\ closed = <<>>
RefsIdle ==
    /\ repo = <<>>
    /\ contents = <<>>
    /\ sha = <<>>
    /\ version = <<>>
    /\ old_sha = None
    /\ fpos = 0
    /\ modified_files = <<>>

SettingsIdle ==
    /\ desired = "none"
    /\ github = "none"
    /\ gh_codes = "none"
    /\ current = "none"
    /\ current_security = "none"
    /\ diff = "none"
    /\ all_passed = "none"
    /\ exit_code = 0

inputs == <<scope, group_id, artifact_id, new_version, cur, layout, supplied>>

RenderAll(docs) == [i \in 1..Len(docs) |-> RenderDoc(docs[i])]

InitCommon ==
    /\ all_pom_contents = RenderAll(layout)
    /\ \E c \in Coordinates : group_id = c[1] /\ artifact_id = c[2]
    /\ new_version \in NewVersions
    /\ phase = "ready"
    /\ calls = 0
    /\ call_input = <<>>
    /\ updated = <<>>
    /\ old_version = None
    /\ updated_poms = NoPoms
    /\ raised = FALSE
    /\ at = "pom"
    /\ ClockIdle
    /\ VerifyIdle
    /\ WaitIdle
    /\ ConsumerIdle
    /\ RefsIdle
    /\ SettingsIdle

\* scope parent: the root pom.xml alone
InitParent ==
    /\ scope = "parent"
    /\ \E main \in SeqsUpTo(ParentPool, MaxBlocks) : layout = <<main>>
    /\ cur = 1
    /\ supplied = TRUE
    /\ InitCommon

\* a dependency block whose version is a property reference
HasReference(blocks) ==
    \E k \in 1..Len(blocks) :
        blocks[k].kind = "dependency" /\ PropertyRef(Strip(blocks[k].v)) # None

\* scope dependency: the declaring POM, after the other POM files in the
\* order of the mapping.  The mapping is read only to resolve a property
\* reference: other files, and a call without the mapping (supplied =
\* FALSE: all_pom_contents None or empty), go with a declaring POM that has
\* one.
InitDependency ==
    /\ scope = "dependency"
    /\ \E main \in SeqsUpTo(DependencyPool, MaxBlocks) :
       \E others \in SeqsUpTo(OtherPool, MaxOthers) :
          /\ others # <<>> => HasReference(main)
          /\ layout = [i \in 1..Len(others) |-> <<others[i]>>] \o <<main>>
          /\ cur = Len(others) + 1
          /\ supplied \in IF HasReference(main) /\ others = <<>>
                          THEN BOOLEAN ELSE {TRUE}
    /\ InitCommon

Init == InitDependency \/ InitParent

\* ------------------------------------------------------------------------
\* Operations
\* ------------------------------------------------------------------------
Returns(r) ==
    /\ updated' = r.updated
    /\ old_version' = r.old_version
    /\ updated_poms' = r.updated_poms
    /\ raised' = r.raised
    /\ call_input' = all_pom_contents
    /\ phase' = "called"
    /\ calls' = calls + 1
    /\ UNCHANGED <<inputs, all_pom_contents, script_vars>>

\* the all_pom_contents argument: the mapping, or None / {} (both falsy)
Supplied == IF supplied THEN all_pom_contents ELSE <<>>

CallUpdateParentVersion ==
    /\ phase = "ready"
    /\ scope = "parent"
    /\ calls < MaxCalls
    /\ Returns(update_parent_version(all_pom_contents[cur], group_id,
                                     artifact_id, new_version))

CallUpdateDependencyVersion ==
    /\ phase = "ready"
    /\ scope = "dependency"
    /\ calls < MaxCalls
    /\ Returns(update_dependency_version(all_pom_contents[cur], group_id,
                                         artifact_id, new_version,
                                         Supplied))

\* the caller writes the returned texts to the files (when an old version
\* was reported), so that the next call reads them
WriteBack ==
    /\ phase = "called"
    /\ ~raised
    /\ calls < MaxCalls
    /\ all_pom_contents' =
         IF old_version # None /\ old_version # <<>>
         THEN [p \in 1..Len(all_pom_contents) |->
                 IF p \in DOMAIN updated_poms THEN updated_poms[p]
                 ELSE IF p = cur THEN updated
                 ELSE all_pom_contents[p]]
         ELSE all_pom_contents
    /\ phase' = "ready"
    /\ UNCHANGED <<inputs, calls, call_input, updated, old_version,
                   updated_poms, raised, script_vars>>

Next ==
    \/ CallUpdateParentVersion
    \/ CallUpdateDependencyVersion
    \/ WriteBack

Spec == Init /\ [][Next]_vars

TypeOK ==
    /\ scope \in {"parent", "dependency"}
    /\ phase \in {"ready", "called"}
    /\ calls \in 0..MaxCalls
    /\ cur \in 1..Len(all_pom_contents)
    /\ raised \in BOOLEAN
    /\ supplied \in BOOLEAN

\* ------------------------------------------------------------------------
\* Vocabulary of the properties
\* ------------------------------------------------------------------------
Called == phase = "called"
FirstCall == phase = "called" /\ calls = 1

\* the document handed to the call, and the one it handed back
PomContent == call_input[cur]

\* "document unchanged, no old version, empty changed-files map"
NoChange ==
    /\ ~raised
    /\ updated = PomContent
    /\ old_version = None
    /\ updated_poms = NoPoms

\* the version validator of the specification (letters, digits, ".", "-",
\* "_"; not empty)
VersionChars == Letters \cup Digits \cup {".", "-", "_"}
IsValidVersion(v) == v # <<>> /\ \A i \in 1..Len(v) : v[i] \in VersionChars

\* the text of document p after the call
After(p) ==
    IF p \in DOMAIN updated_poms THEN updated_poms[p]
    ELSE IF p = cur THEN updated
    ELSE call_input[p]

\* the match the call started from
CallPattern ==
    IF scope = "parent" THEN _build_parent_pattern(group_id, artifact_id)
    ELSE _build_dependency_pattern(group_id, artifact_id)
CallMatch == Search(PomContent, CallPattern)
MatchedVersion == Strip(Group(PomContent, CallMatch, 2))

\* the property the call resolved, or None
ResolvedProperty ==
    IF scope = "dependency" /\ CallMatch.found
    THEN PropertyRef(MatchedVersion)
    ELSE None

CountLt(text) == Cardinality({ i \in 1..Len(text) : text[i] = "<" })

\* block k of a document laid out as blocks stands, with the same text, at
\* the same place (after the same number of tags) in text out
BlockKept(blocks, k, out) ==
    LET before == RenderDoc(SubSeq(blocks, 1, k - 1))
        piece == RenderBlock(blocks[k])
    IN \E j \in 1..(Len(out) - Len(piece) + 1) :
          /\ SubSeq(out, j, j + Len(piece) - 1) = piece
          /\ CountLt(SubSeq(out, 1, j - 1)) = CountLt(before)

\* two texts differ inside one text node only: outside a common prefix and
\* a common suffix neither has markup, and the prefix ends after a tag
Min(a, b) == IF a <= b THEN a ELSE b

\* (computed without recursion: the texts are long)
CommonPrefix(a, b, n) ==
    CHOOSE k \in n..Min(Len(a), Len(b)) :
       /\ \A i \in (n + 1)..k : a[i] = b[i]
       /\ (k < Len(a) /\ k < Len(b)) => a[k + 1] # b[k + 1]

CommonSuffix(a, b, pre, n) ==
    CHOOSE k \in n..(Min(Len(a), Len(b)) - pre) :
       /\ \A i \in n..(k - 1) : a[Len(a) - i] = b[Len(b) - i]
       /\ (pre + k < Len(a) /\ pre + k < Len(b))
             => a[Len(a) - k] # b[Len(b) - k]

Markup == {"<", ">"}

RECURSIVE InTextNode(_, _)
InTextNode(a, i) ==
    IF i = 0 THEN FALSE
    ELSE IF a[i] = ">" THEN TRUE
    ELSE IF a[i] = "<" THEN FALSE
    ELSE InTextNode(a, i - 1)

DiffersInOneText(a, b) ==
    LET pre == CommonPrefix(a, b, 0)
        suf == CommonSuffix(a, b, pre, 0)
    IN /\ \A i \in (pre + 1)..(Len(a) - suf) : a[i] \notin Markup
       /\ \A i \in (pre + 1)..(Len(b) - suf) : b[i] \notin Markup
       /\ InTextNode(a, pre)

\* layout view of property definitions: the documents that define a
\* property, the document the search order reaches first (the declaring
\* document, then the files in mapping order; 0 if none), and the value of
\* its first definition
Defines(blocks, name) ==
    \E k \in 1..Len(blocks) :
        blocks[k].kind = "property" /\ blocks[k].a = name

FirstValue(blocks, name) ==
    LET ks == { k \in 1..Len(blocks) :
                  blocks[k].kind = "property" /\ blocks[k].a = name }
    IN Strip(blocks[CHOOSE k \in ks : \A h \in ks : k <= h].v)

FirstDefiningDoc(name) ==
    LET ps == { p \in 1..Len(layout) : Defines(layout[p], name) }
    IN IF Defines(layout[cur], name) THEN cur
       ELSE IF ps = {} THEN 0
       ELSE CHOOSE p \in ps : \A q \in ps : p <= q

ValueOf(name) ==
    IF FirstDefiningDoc(name) = 0 THEN None
    ELSE FirstValue(layout[FirstDefiningDoc(name)], name)

ResolvedValue == ValueOf(ResolvedProperty)

\* the current version the guards of the call look at, or None
CurrentVersion ==
    IF ~CallMatch.found THEN None
    ELSE IF ResolvedProperty # None THEN ResolvedValue
    ELSE MatchedVersion

ScopeKind == IF scope = "parent" THEN "parent" ELSE "dependency"

\* block b declares a version of the requested coordinate
IsTargetBlock(b) ==
    /\ b.kind = ScopeKind
    /\ b.g = group_id
    /\ b.a = artifact_id

\* block b defines the resolved property
IsResolvedDefinition(b) ==
    /\ b.kind = "property"
    /\ ResolvedProperty # None
    /\ b.a = ResolvedProperty

BlockIndices == { pk \in (1..Len(layout)) \X (1..MaxBlocks) :
                    pk[2] <= Len(layout[pk[1]]) }

\* ------------------------------------------------------------------------
\* Properties
\* ------------------------------------------------------------------------

\* C1: a target version that is empty or has a character outside letters,
\* digits, ".", "-", "_" is refused: the document comes back byte-identical,
\* no old version is reported and the changed-files map is empty.
C1_InvalidTargetRefused ==
    (Called /\ ~IsValidVersion(new_version)) => NoChange

\* C2: a returned document that differs from its input differs only in the
\* text content of one element, also when the document has several blocks
\* of the coordinate or several definitions of the property.  (Stated for
\* the target versions the validator accepts.)
C2_SingleTokenDiff ==
    (Called /\ ~raised /\ IsValidVersion(new_version)) =>
        \A p \in 1..Len(call_input) :
            \/ After(p) = call_input[p]
            \/ DiffersInOneText(call_input[p], After(p))

\* C3: unstable versions are never upgraded: every version element of the
\* coordinate and every definition of the resolved property whose text
\* contained SNAPSHOT has the same text after the call, and a call whose
\* matched current version contains SNAPSHOT changes nothing.  (Stated for
\* the target versions the validator accepts.)
C3_SnapshotNeverUpgraded ==
    (FirstCall /\ ~raised /\ IsValidVersion(new_version)) =>
        /\ \A pk \in BlockIndices :
              LET b == layout[pk[1]][pk[2]]
              IN ((IsTargetBlock(b) \/ IsResolvedDefinition(b))
                  /\ Contains(b.v, SNAPSHOT))
                 => BlockKept(layout[pk[1]], pk[2], After(pk[1]))
        /\ (CurrentVersion # None /\ Contains(CurrentVersion, SNAPSHOT))
              => NoChange

\* C4: idempotence: a second rewrite with the same target on the output of
\* the first reports no old version, returns every document unchanged and
\* an empty changed-files map.
C4_SecondCallNoChange ==
    (Called /\ calls >= 2) => NoChange

\* the raw text of the first <name> definition of a text, or None
DefinitionText(text, name) ==
    LET m == Search(text, _build_property_pattern(name))
    IN IF m.found THEN Group(text, m, 2) ELSE None

\* a successful rewrite through a property reference
PropertyRewritten ==
    /\ ~raised
    /\ ResolvedProperty # None
    /\ old_version # None

HasBackslash(v) == \E i \in 1..Len(v) : v[i] = Backslash

\* a document layout with every definition of property name set to v
WithProperty(blocks, name, v) ==
    [k \in 1..Len(blocks) |->
        IF blocks[k].kind = "property" /\ blocks[k].a = name
        THEN [blocks[k] EXCEPT !.v = v]
        ELSE blocks[k]]

C6_ReferenceTokensKept ==
    (FirstCall /\ scope = "dependency" /\ ~raised
     /\ IsValidVersion(new_version)) =>
        \A pk \in BlockIndices :
            PropertyRef(Strip(layout[pk[1]][pk[2]].v)) # None
              => BlockKept(layout[pk[1]], pk[2], After(pk[1]))

\* C7: property resolution is first-match-wins: the declaring document is
\* examined first, then the files in mapping order; no document other than
\* the first one that defines <name> is modified, and when that first
\* definition is at the target or is a SNAPSHOT nothing changes, whatever
\* later documents define.
C7_FirstDefinitionWins ==
    FirstCall =>
      \A name \in {ResolvedProperty} : name # None =>
        LET d == FirstDefiningDoc(name)
        IN /\ \A p \in 1..Len(layout) :
                 p # d => /\ p \notin DOMAIN updated_poms
                          /\ p = cur => (raised \/ updated = PomContent)
           /\ (d # 0 /\ (ValueOf(name) = new_version
                         \/ Contains(ValueOf(name), SNAPSHOT)))
                => NoChange

\* C7 witness: the first definition is a SNAPSHOT and a later file defines
\* the property with another value; nothing changed
C7_Witness ==
    /\ FirstCall
    /\ ResolvedProperty # None
    /\ FirstDefiningDoc(ResolvedProperty) # 0
    /\ Contains(ResolvedValue, SNAPSHOT)
    /\ \E p \in 1..Len(layout) :
          /\ p > FirstDefiningDoc(ResolvedProperty)
          /\ Defines(layout[p], ResolvedProperty)
          /\ FirstValue(layout[p], ResolvedProperty) = V1
    /\ new_version = V2
    /\ NoChange

\* C8: the changed-files map holds only paths whose content changed.
C8_ChangedFilesDiffer ==
    Called => \A p \in DOMAIN updated_poms : updated_poms[p] # call_input[p]

\* the text node that starts at position i
TextAt(text, i) == SubSeq(text, i, SkipNotLt(text, i) - 1)

\* C9: a matching block with a literal version that differs from the target
\* and has no SNAPSHOT: the old version reported is the previous text of
\* the version element, trimmed, and the content of that version element
\* is exactly the target version afterwards.
C9_LiteralRewritten ==
    (Called /\ CallMatch.found /\ ResolvedProperty = None
     /\ MatchedVersion # new_version
     /\ ~Contains(MatchedVersion, SNAPSHOT)) =>
        /\ ~raised
        /\ old_version = MatchedVersion
        /\ TextAt(updated, CallMatch.g2) = new_version
        /\ MatchLit(updated, CallMatch.g2 + Len(new_version),
                    CloseTag(NVersion)) # 0

\* C10: when no parent block (scope parent) or dependency block (scope
\* dependency) of the document has exactly the requested group id and
\* artifact id, the call changes nothing and raises nothing.
C10_NoMatchNoChange ==
    (FirstCall /\ \A k \in 1..Len(layout[cur]) :
                     ~IsTargetBlock(layout[cur][k]))
        => NoChange

\* C10 witness: a block of the scope whose artifact id equals the requested
\* one only if "." is read as a wildcard, and whose version differs from
\* the target
C10_Witness ==
    /\ FirstCall
    /\ \A k \in 1..Len(layout[cur]) : ~IsTargetBlock(layout[cur][k])
    /\ \E k \in 1..Len(layout[cur]) :
          /\ layout[cur][k].kind = ScopeKind
          /\ layout[cur][k].a = ArtifactAxB
    /\ new_version = V2
    /\ NoChange

\* a layout with the version text of block k set to v
WithVersion(blocks, k, v) ==
    [h \in 1..Len(blocks) |->
        IF h = k THEN [blocks[h] EXCEPT !.v = v] ELSE blocks[h]]

\* block k is the only block of the requested coordinate in the declaring
\* document, and holds a literal version a rewrite to the target applies to
OnlyLiteralTarget(k) ==
    LET blocks == layout[cur]
        v == blocks[k].v
    IN /\ IsTargetBlock(blocks[k])
       /\ \A h \in 1..Len(blocks) : h # k => ~IsTargetBlock(blocks[h])
       /\ v # NoVersion
       /\ PropertyRef(Strip(v)) = None
       /\ ~Contains(v, SNAPSHOT)
       /\ Strip(v) # new_version

\* C11: the version element of the dependency of the coordinate is located
\* whatever sibling elements stand between its artifactId and its version,
\* and after the rewrite the siblings are byte-identical and in the same
\* order: the document returned is the input with the version text replaced
\* and nothing else.  (Stated for documents with one dependency of the
\* coordinate and for the target versions the validator accepts.)
C11_SiblingsTolerated ==
    (FirstCall /\ scope = "dependency" /\ IsValidVersion(new_version)) =>
        \A k \in 1..Len(layout[cur]) : OnlyLiteralTarget(k) =>
            /\ ~raised
            /\ old_version = Strip(layout[cur][k].v)
            /\ updated = RenderDoc(WithVersion(layout[cur], k, new_version))
            /\ updated_poms = NoPoms

\* C12: a property reference ${name} that neither the declaring document
\* nor any supplied document defines (also when the mapping is None or
\* empty): the document comes back unchanged, with no old version and an
\* empty changed-files map, and nothing is raised.
C12_UnresolvedReferenceNoChange ==
    FirstCall =>
      \A name \in {ResolvedProperty} :
        (name # None /\ FirstDefiningDoc(name) = 0) => NoChange

\* C12 witness: an unresolved reference, called without the mapping
C12_Witness ==
    /\ FirstCall
    /\ ResolvedProperty # None
    /\ FirstDefiningDoc(ResolvedProperty) = 0
    /\ ~supplied
    /\ new_version = V2
    /\ NoChange

\* the four elements of block b stand in the order of the parent pattern
\* with nothing but whitespace between them
InPatternOrder(b) ==
    IsTargetBlock(b) /\ b.sib \in {"none", "after"} /\ b.v # NoVersion

StartsWithText(s, p) == Len(s) >= Len(p) /\ SubSeq(s, 1, Len(p)) = p
EndsWithText(s, p) ==
    Len(s) >= Len(p) /\ SubSeq(s, Len(s) - Len(p) + 1, Len(s)) = p

\* the blocks h..k of the declaring document come back as they were, at
\* the start (h = 1) or at the end of the returned document
KeptAtStart(blocks, k) ==
    (\A h \in 1..k : ~InPatternOrder(blocks[h]))
       => StartsWithText(updated, RenderDoc(SubSeq(blocks, 1, k)))
KeptAtEnd(blocks, k) ==
    (\A h \in k..Len(blocks) : ~InPatternOrder(blocks[h]))
       => EndsWithText(updated, RenderDoc(SubSeq(blocks, k, Len(blocks))))

\* C24: update_dependency_version reads and rewrites only a version
\* element inside the dependency block of the coordinate: the version
\* element it matched does not lie after that block's closing
\* </dependency> tag, and a document whose only dependency of the
\* coordinate declares no version comes back unchanged with no old version.
C24_VersionInsideMatchedBlock ==
    (FirstCall /\ scope = "dependency") =>
       /\ CallMatch.found =>
             ~Contains(SubSeq(PomContent, CallMatch.start, CallMatch.g2 - 1),
                       CloseTag(NDependency))
       /\ \A k \in 1..Len(layout[cur]) :
             (/\ IsTargetBlock(layout[cur][k])
              /\ layout[cur][k].v = NoVersion
              /\ \A h \in 1..Len(layout[cur]) :
                    h # k => ~IsTargetBlock(layout[cur][h]))
             => NoChange

\* C29: update_parent_version matches <parent>, <groupId>, <artifactId>,
\* <version> in this order with only whitespace between them: a document
\* whose parent blocks of the coordinate all have another order, another
\* element between the four, or no version comes back unchanged with no
\* old version; and a version element outside the parent block comes back
\* as it was.
C29_ParentMatchedInOrderOnly ==
    (FirstCall /\ scope = "parent" /\ ~raised) =>
       /\ (\A k \in 1..Len(layout[cur]) : ~InPatternOrder(layout[cur][k]))
             => NoChange
       /\ \A k \in 1..Len(layout[cur]) :
             layout[cur][k].kind = "property" =>
                /\ KeptAtStart(layout[cur], k)
                /\ KeptAtEnd(layout[cur], k)

\* C29 witness: a parent block with artifactId before groupId, followed by
\* the version element of the project
C29_Witness ==
    /\ FirstCall
    /\ scope = "parent"
    /\ Len(layout[cur]) = 2
    /\ IsTargetBlock(layout[cur][1])
    /\ layout[cur][1].sib = "swapped"
    /\ layout[cur][2] = PropertyBlock(NVersion, V1)
    /\ new_version = V2
    /\ NoChange

\* ========================================================================
\* The scripts around the pull requests.  The POM rewriting stands still
\* while one of them runs.
\* ========================================================================
PomIdle ==
    /\ scope = "none"
    /\ group_id = <<>>
    /\ artifact_id = <<>>
    /\ new_version = <<>>
    /\ all_pom_contents = <<>>
    /\ cur = 0
    /\ layout = <<>>
    /\ supplied = FALSE
    /\ phase = "idle"
    /\ calls = 0
    /\ call_input = <<>>
    /\ updated = <<>>
    /\ old_version = None
    /\ updated_poms = NoPoms
    /\ raised = FALSE

\* JSON null / Python None among strings
Null == "null"
Truthy(s) == s # Null /\ s # ""

\* ------------------------------------------------------------------------
\* verify-consumer-prs.py
\* ------------------------------------------------------------------------
MaxRecords == 2
MaxTimeout == 3
MaxInterval == 2

\* the answers of "gh pr view --json state,mergedAt,statusCheckRollup,
\* headRefName,headRepository"
CheckPool ==
    { [name |-> "build", status |-> "COMPLETED", conclusion |-> "SUCCESS"],
      [name |-> "build", status |-> "COMPLETED", conclusion |-> "SKIPPED"],
      [name |-> "verify", status |-> "COMPLETED", conclusion |-> "FAILURE"],
      [name |-> "verify", status |-> "IN_PROGRESS", conclusion |-> Null],
      [name |-> "verify", status |-> "COMPLETED", conclusion |-> "SKIPPED"] }
MaxChecks == 2

GhViews ==
    [ returncode : {0, 1},
      valid_json : BOOLEAN,
      state : {"OPEN", "CLOSED", "MERGED"},
      mergedAt : {Null, "2026-01-01T00:00:00Z"},
      headRefName : {Null, "chore/update"},
      owner : {"", "cuioss"},
      repo_name : {"", "repo"},
      statusCheckRollup : SeqsUpTo(CheckPool, MaxChecks) ]

AnyCheck(checks, P(_)) == \E i \in 1..Len(checks) : P(checks[i])

UNKNOWN ==
    [ state |-> "UNKNOWN", merged |-> FALSE, checks_passed |-> "None",
      head_branch |-> Null, full_repo |-> Null, build_skipped |-> FALSE ]

IsFailed(c) == c.conclusion \in {"FAILURE", "CANCELLED", "TIMED_OUT"}
IsPending(c) == c.status \in {"QUEUED", "IN_PROGRESS", "PENDING"}
IsSkippedBuild(c) == c.name = "build" /\ c.conclusion = "SKIPPED"

ChecksPassed(checks) ==
    IF checks = <<>> THEN "None"
    ELSE IF AnyCheck(checks, IsFailed) THEN "False"
    ELSE IF AnyCheck(checks, IsPending) THEN "None"
    ELSE "True"

check_pr_status(data) ==
    IF data.returncode # 0 THEN UNKNOWN
    ELSE IF ~data.valid_json THEN UNKNOWN
    ELSE [ state |-> data.state,
           merged |-> Truthy(data.mergedAt),
           checks_passed |-> ChecksPassed(data.statusCheckRollup),
           head_branch |-> data.headRefName,
           full_repo |-> IF data.owner # "" /\ data.repo_name # ""
                         THEN data.owner \o "/" \o data.repo_name
                         ELSE Null,
           build_skipped |-> data.statusCheckRollup # <<>>
                             /\ AnyCheck(data.statusCheckRollup, IsSkippedBuild) ]

PrStatuses == { check_pr_status(data) : data \in GhViews }

\* the standard output of "gh run list ... -q <push-event Maven Build>"
RunListOutputs == { <<>>, <<"\n">>, <<"{", "}", "\n">> }
check_has_push_event_build(stdout) == Strip(stdout) # <<>>

\* the records of the update step.  verify_prs hands the URL to gh and to
\* the report and never compares it: the PRs of one call are told apart by
\* their position in the file, so one URL stands for all.
RecordPool ==
    { [status |-> "pr_auto_merge_enabled", pr_url |-> "pull/1"],
      [status |-> "pr_auto_merge_enabled", pr_url |-> ""],
      [status |-> "pr_created", pr_url |-> "pull/1"],
      [status |-> "error", pr_url |-> Null] }

IsAutoMergePr(r) == r.status = "pr_auto_merge_enabled" /\ Truthy(r.pr_url)

\* the list comprehension of lines 149-153, as the positions of the records kept
RECURSIVE Eligible(_, _)
Eligible(rs, i) ==
    IF i > Len(rs) THEN <<>>
    ELSE (IF IsAutoMergePr(rs[i]) THEN <<i>> ELSE <<>>) \o Eligible(rs, i + 1)

InitVerify ==
    /\ PomIdle
    /\ at = "verify_prs"
    /\ results \in SeqsUpTo(RecordPool, MaxRecords)
    /\ timeout \in 0..MaxTimeout
    /\ poll_interval \in 0..MaxInterval
    /\ elapsed = 0
    /\ slept = 0
    /\ prs = <<>>
    /\ remaining = <<>>
    /\ pos = 0
    /\ final_results = <<>>
    /\ resolved = {}
    /\ repolled = FALSE
    /\ last_status = "none"
    /\ WaitIdle
    /\ ConsumerIdle
    /\ RefsIdle
    /\ SettingsIdle

\* a final result: the record (of: its position in results) with its
\* final_status; seen: what the classification of an unresolved PR looked at
NotSeen == [build_skipped |-> FALSE, full_repo |-> FALSE,
            head_branch |-> FALSE, has_push |-> "not asked",
            unresolved |-> FALSE]
FinalResult(i, final_status, seen) ==
    [of |-> i, pr_url |-> results[i].pr_url, final_status |-> final_status,
     seen |-> seen]

\* the while condition of line 163, and where it leads
WhileTest(e, ps) ==
    IF e < timeout /\ ps # <<>> THEN "poll" ELSE "classify"

\* the PRs of the next round (line 187)
NextPrsAll(ps, rem) == ps
NextPrs(ps, rem) == rem

\* the if/elif chain of lines 168-185: how one status resolves a PR
ResolutionFailedFirst(status) ==
    IF status.checks_passed = "False" THEN "failed"
    ELSE IF status.merged THEN "merged"
    ELSE IF status.state = "CLOSED" THEN "closed"
    ELSE "remaining"
Resolution(status) ==
    IF status.merged THEN "merged"
    ELSE IF status.checks_passed = "False" THEN "failed"
    ELSE IF status.state = "CLOSED" THEN "closed"
    ELSE "remaining"

\* the local variable status as far as the resolution reads it; last_status
\* holds it while the loop body that obtained it runs ("none" outside)
Looked(status) ==
    [state |-> status.state, merged |-> status.merged,
     checks_passed |-> status.checks_passed]

\* the statuses check_pr_status can return, as the poll loop reads them
PolledStatuses == { Looked(status) : status \in PrStatuses }

\* lines 145-161
VerifyStart ==
    /\ at = "verify_prs"
    /\ prs' = Eligible(results, 1)
    /\ at' = IF prs' = <<>> THEN "returned" ELSE WhileTest(0, prs')
    /\ pos' = 1
    /\ elapsed' = 0
    /\ remaining' = <<>>
    /\ final_results' = <<>>
    /\ UNCHANGED <<not_verify, timeout, poll_interval, slept, results,
                   resolved, repolled, last_status>>

\* one pass of the for loop of lines 165-185
Poll ==
    /\ at = "poll"
    /\ pos <= Len(prs)
    /\ \E status \in PolledStatuses :
         \E final_status \in {Resolution(status)} :
          /\ last_status' = status
          /\ IF final_status = "remaining"
             THEN /\ remaining' = Append(remaining, prs[pos])
                  /\ UNCHANGED <<final_results, resolved>>
             ELSE /\ final_results' =
                       Append(final_results,
                              FinalResult(prs[pos], final_status, NotSeen))
                  /\ resolved' = resolved \cup {prs[pos]}
                  /\ UNCHANGED remaining
    /\ repolled' = (repolled \/ prs[pos] \in resolved)
    /\ pos' = pos + 1
    /\ UNCHANGED <<not_verify, at, clock_vars, results, prs>>

\* lines 187-190, and the while condition again
EndRound ==
    /\ at = "poll"
    /\ pos > Len(prs)
    /\ prs' = NextPrs(prs, remaining)
    /\ \E nap \in { IF prs' # <<>> /\ elapsed < timeout
                    THEN poll_interval ELSE 0 } :
         /\ slept' = slept + nap
         /\ elapsed' = elapsed + nap
    /\ at' = WhileTest(elapsed', prs')
    /\ remaining' = <<>>
    /\ pos' = 1
    /\ last_status' = "none"
    /\ UNCHANGED <<not_verify, timeout, poll_interval, results, final_results,
                   resolved, repolled>>

\* what lines 194-200 look at: the fresh status, and the run list when the
\* first three conditions let the call happen; unresolved: that status is
\* one the poll loop would have kept for the next round
Seen(status, stdout) ==
    [unresolved |-> Resolution(status) = "remaining",
     build_skipped |-> status.build_skipped,
     full_repo |-> Truthy(status.full_repo),
     head_branch |-> Truthy(status.head_branch),
     has_push |-> IF status.build_skipped /\ Truthy(status.full_repo)
                     /\ Truthy(status.head_branch)
                  THEN (IF check_has_push_event_build(stdout)
                        THEN "found" ELSE "none")
                  ELSE "not asked"]

IsStuckWithoutRunList(status, stdout) ==
    /\ status.build_skipped
    /\ Truthy(status.full_repo)
    /\ Truthy(status.head_branch)
IsStuck(status, stdout) ==
    /\ status.build_skipped
    /\ Truthy(status.full_repo)
    /\ Truthy(status.head_branch)
    /\ ~check_has_push_event_build(stdout)

\* one pass of the for loop of lines 193-208
Classify ==
    /\ at = "classify"
    /\ pos <= Len(prs)
    /\ \E status \in PrStatuses : \E stdout \in RunListOutputs :
         final_results' =
            Append(final_results,
                   FinalResult(prs[pos],
                               IF IsStuck(status, stdout)
                               THEN "stuck_no_push" ELSE "pending",
                               Seen(status, stdout)))
    /\ repolled' = (repolled \/ prs[pos] \in resolved)
    /\ pos' = pos + 1
    /\ UNCHANGED <<not_verify, at, clock_vars, results, prs, remaining,
                   resolved, last_status>>

\* line 210
ReturnFinalResults ==
    /\ at = "classify"
    /\ pos > Len(prs)
    /\ at' = "returned"
    /\ UNCHANGED <<not_verify, clock_vars, verify_vars>>

NextVerify ==
    \/ VerifyStart
    \/ Poll
    \/ EndRound
    \/ Classify
    \/ ReturnFinalResults

SpecVerify == InitVerify /\ [][NextVerify]_vars

VerifyReturned == at = "returned" /\ results # <<>>

ResultsOf(i) == { k \in 1..Len(final_results) : final_results[k].of = i }

FinalStatuses == {"merged", "failed", "closed", "pending", "stuck_no_push"}

\* C13: verify_prs returns exactly one final result for every record with
\* status pr_auto_merge_enabled and a non-empty pr_url and none for any other
\* record; every final_status is one of the five; a PR resolved in one round
\* is not polled or reported again.
C13_OneResultPerAutoMergePr ==
    /\ \A k \in 1..Len(final_results) :
          final_results[k].final_status \in FinalStatuses
    /\ ~repolled
    /\ \A i \in 1..Len(results) : Cardinality(ResultsOf(i)) <= 1
    /\ at = "returned" =>
          \A i \in 1..Len(results) :
             Cardinality(ResultsOf(i)) =
                IF IsAutoMergePr(results[i]) THEN 1 ELSE 0

\* a resolved PR, an unresolved one and a record that is no auto-merge PR
C13_Witness ==
    /\ at = "returned"
    /\ Len(results) = 2
    /\ ~IsAutoMergePr(results[1])
    /\ IsAutoMergePr(results[2])
    /\ Len(final_results) = 1
    /\ final_results[1].final_status = "merged"
    /\ slept > 0

\* C14: an unresolved PR is stuck_no_push exactly when its status has
\* build_skipped, a repository and a head branch and the run list shows no
\* push-event Maven Build; otherwise it is pending.
C14_StuckExactlyWithoutPushBuild ==
    \A k \in 1..Len(final_results) :
       final_results[k].of \notin resolved =>
          /\ final_results[k].final_status \in {"stuck_no_push", "pending"}
          /\ final_results[k].final_status = "stuck_no_push" <=>
                /\ final_results[k].seen.build_skipped
                /\ final_results[k].seen.full_repo
                /\ final_results[k].seen.head_branch
                /\ final_results[k].seen.has_push = "none"

C14_Witness ==
    /\ at = "returned"
    /\ \E k \in 1..Len(final_results) :
          final_results[k].final_status = "stuck_no_push"
    /\ \E k \in 1..Len(final_results) :
          /\ final_results[k].final_status = "pending"
          /\ final_results[k].seen.has_push = "found"

\* C25: a PR reported pending or stuck_no_push was, by the most recent
\* status obtained for it, not merged, without a failed check and not closed.
C25_UnresolvedByLatestStatus ==
    \A k \in 1..Len(final_results) :
       final_results[k].final_status \in {"pending", "stuck_no_push"} =>
          final_results[k].seen.unresolved

\* the result the poll loop gave for the PR at position pos - 1 of the
\* round, last_status being the status obtained for it
PolledPr == prs[pos - 1]
JustPolled == at = "poll" /\ pos > 1

\* checks_passed as the claim words it
NoneFailed(checks) == \A i \in 1..Len(checks) : ~IsFailed(checks[i])
NonePending(checks) == \A i \in 1..Len(checks) : ~IsPending(checks[i])

\* C26: in a poll round a merged PR is reported merged whatever its checks
\* and state; otherwise one with a failed, cancelled or timed-out check is
\* reported failed; otherwise a closed one is reported closed; otherwise it
\* goes to the PRs of the next round.  check_pr_status yields checks_passed
\* None without checks or with no failed and a pending check, and True only
\* with no failed and no pending check.
C26_MergedThenFailedThenClosed ==
    /\ JustPolled =>
          LET expected ==
                 IF last_status.merged THEN "merged"
                 ELSE IF last_status.checks_passed = "False" THEN "failed"
                 ELSE IF last_status.state = "CLOSED" THEN "closed"
                 ELSE "remaining"
          IN IF expected = "remaining"
             THEN /\ remaining # <<>>
                  /\ remaining[Len(remaining)] = PolledPr
                  /\ ResultsOf(PolledPr) = {}
             ELSE /\ final_results # <<>>
                  /\ final_results[Len(final_results)].of = PolledPr
                  /\ final_results[Len(final_results)].final_status = expected
                  /\ \A j \in 1..Len(remaining) : remaining[j] # PolledPr
    /\ (at = "verify_prs" /\ results = <<>> /\ timeout = 0 /\ poll_interval = 0) =>
          \A data \in GhViews :
             (data.returncode = 0 /\ data.valid_json) =>
                LET checks == data.statusCheckRollup
                    passed == check_pr_status(data).checks_passed
                IN /\ (checks = <<>> \/ (NoneFailed(checks) /\ ~NonePending(checks)))
                      => passed = "None"
                   /\ passed = "True" <=>
                         (checks # <<>> /\ NoneFailed(checks) /\ NonePending(checks))
                   /\ passed = "False" <=> ~NoneFailed(checks)

\* C26 witness: a PR that is merged, has a failed check and is closed is
\* reported merged
C26_Witness ==
    /\ JustPolled
    /\ last_status.merged
    /\ last_status.checks_passed = "False"
    /\ last_status.state = "CLOSED"
    /\ final_results[Len(final_results)].final_status = "merged"

\* every step of verify_prs is taken sooner or later: the script runs alone
\* and gh and time.sleep return
SpecVerifyLive == InitVerify /\ [][NextVerify]_vars /\ WF_vars(NextVerify)

\* the number of the poll round in progress, for a positive poll_interval
\* (every earlier round ended with one sleep of poll_interval)
RoundInProgress == (slept \div poll_interval) + 1
CeilDiv(a, b) == (a + b - 1) \div b

\* C28: verify_prs returns for every timeout and every poll_interval (0
\* included), also when no PR is ever resolved; with a positive
\* poll_interval it runs at most ceil(timeout / poll_interval) poll rounds.
C28_VerifyTerminates ==
    /\ <>(at = "returned")
    /\ []((at = "poll" /\ poll_interval > 0)
             => RoundInProgress <= CeilDiv(timeout, poll_interval))

\* C15: the sum of all sleep durations of one verify_prs call is at most
\* timeout.
C15_SleepsWithinTimeout == slept <= timeout

\* ------------------------------------------------------------------------
\* check-maven-central.py
\* ------------------------------------------------------------------------
\* what the HEAD request of check_artifact_available ends with: a status,
\* an HTTPError with its code, a URLError or a TimeoutError
HeadResponses == {"200", "204", "HTTPError 404", "HTTPError 500", "URLError",
                  "TimeoutError"}
check_artifact_available(r) == r = "200"

NextWait(interval, left) == Min(interval, left)

InitWait ==
    /\ PomIdle
    /\ VerifyIdle
    /\ at = "wait_for_artifact"
    /\ timeout \in 0..MaxTimeout
    /\ poll_interval \in 0..MaxInterval
    /\ elapsed = 0
    /\ slept = 0
    /\ WaitIdle
    /\ ConsumerIdle
    /\ RefsIdle
    /\ SettingsIdle

\* the while condition of line 71; leaving the loop is the timeout return
WaitTest(e) == IF e < timeout THEN "check" ELSE "returned"

\* line 70
WaitStart ==
    /\ at = "wait_for_artifact"
    /\ elapsed' = 0
    /\ at' = WaitTest(0)
    /\ found' = IF at' = "returned" THEN "False" ELSE found
    /\ UNCHANGED <<not_wait, timeout, poll_interval, slept,
                   response, wait, checks_failed, sleeps>>

\* lines 72-79
CheckArtifact ==
    /\ at = "check"
    /\ \E r \in HeadResponses :
         /\ response' = r
         /\ IF check_artifact_available(r)
            THEN /\ found' = "True"
                 /\ at' = "returned"
                 /\ UNCHANGED <<wait, checks_failed>>
            ELSE /\ checks_failed' = checks_failed + 1
                 /\ wait' = NextWait(poll_interval, timeout - elapsed)
                 /\ at' = IF wait' <= 0 THEN "returned" ELSE "sleep"
                 /\ found' = IF wait' <= 0 THEN "False" ELSE found
    /\ UNCHANGED <<not_wait, clock_vars, sleeps>>

\* lines 82-83, and the while condition again
SleepAndRetry ==
    /\ at = "sleep"
    /\ slept' = slept + wait
    /\ sleeps' = sleeps + 1
    /\ elapsed' = elapsed + wait
    /\ at' = WaitTest(elapsed')
    /\ found' = IF at' = "returned" THEN "False" ELSE found
    /\ UNCHANGED <<not_wait, timeout, poll_interval, response,
                   wait, checks_failed>>

NextWaitForArtifact ==
    \/ WaitStart
    \/ CheckArtifact
    \/ SleepAndRetry

SpecWait == InitWait /\ [][NextWaitForArtifact]_vars

\* C16: wait_for_artifact returns True as soon as a check succeeds and does
\* not sleep after it; the number of sleeps equals the number of failed
\* checks before the success; it returns False only when the accumulated
\* waiting time has reached timeout without a successful check.
C16_TrueAtOnceFalseOnlyAtTimeout ==
    /\ response = "200" => (at = "returned" /\ found = "True")
    /\ found = "True" => (response = "200" /\ sleeps = checks_failed)
    /\ found = "False" => (slept >= timeout /\ response # "200")

\* ------------------------------------------------------------------------
\* consumer_update_utils.py and update-consumer-repo.py: the auto-merge
\* configuration, auto-merge of the new PR, closing of the stale PRs
\* ------------------------------------------------------------------------
MaxPrs == 3

\* .github/project.yml as yaml.safe_load sees it.  file: missing, invalid
\* (safe_load raises), scalar (the document is no mapping) or mapping;
\* automation: the github-automation entry (absent, scalar, mapping) and its
\* two keys (absent or the value)
ProjectYml(file, automation, versions, build_timeout) ==
    [file |-> file, automation |-> automation, versions |-> versions,
     build_timeout |-> build_timeout]
YamlValues == {"absent", "true", "false", "null"}
ProjectYmls ==
    { ProjectYml(f, "absent", "absent", "absent") :
         f \in {"missing", "invalid", "scalar", "mapping"} }
    \cup { ProjectYml("mapping", "scalar", "absent", "absent") }
    \cup { ProjectYml("mapping", "mapping", v, b) :
              v \in YamlValues, b \in {"absent", "120"} }

\* bool(value) of a loaded YAML scalar
Bool(v) == v \notin {"false", "null", "0", ""}

\* read_auto_merge_config (update-consumer-repo.py lines 60-95; the one of
\* consumer_update_utils.py, lines 54-89, reads the same).  yaml_installed:
\* whether "import yaml" succeeds
read_auto_merge_config(yml, installed) ==
    IF yml.file = "missing" THEN [enabled |-> TRUE]
    ELSE IF ~installed THEN [enabled |-> TRUE]
    ELSE IF yml.file = "invalid" THEN [enabled |-> TRUE]
    ELSE IF yml.file # "mapping" THEN [enabled |-> TRUE]
    ELSE IF yml.automation # "mapping" THEN [enabled |-> TRUE]
    ELSE IF yml.versions # "absent" THEN [enabled |-> Bool(yml.versions)]
    ELSE [enabled |-> TRUE]

\* a call of gh: the subcommand, whether --auto is given, the PR it names
\* (0: none), and how it ended
GhCall(cmd, auto, pr, result) ==
    [cmd |-> cmd, auto |-> auto, pr |-> pr,
     returncode |-> result.returncode, stderr |-> result.stderr]
GhResults == [returncode : {0, 1}, stderr : {""}]
Ok == [returncode |-> 0, stderr |-> ""]
Failed == [returncode |-> 1, stderr |-> ""]

\* how "gh pr merge --auto" ends
MergeOutcomes ==
    { [returncode |-> 0, stderr |-> ""],
      [returncode |-> 1, stderr |-> "clean status"],
      [returncode |-> 1, stderr |-> "Permission denied"] }

\* head branches, character by character
Prefix == <<"u", "-">>
BranchPool == { <<"u", "-", "1">>, <<"u", "-", "2">>, <<"f", "-", "1">> }
NoBranch == <<>>

StartsWith(s, p) == Len(s) >= Len(p) /\ SubSeq(s, 1, Len(p)) = p

\* the open PRs of the repository: number, url, headRefName
OpenPr(n, branch) == [number |-> n, url |-> <<"pull", n>>, headRefName |-> branch]

\* how "gh pr list --state open --json number,url,headRefName" ends
ListOutcomes == {"listed", "failed", "no json"}

find_open_prs_by_branch_prefix(outcome, listed, prefix) ==
    IF outcome = "failed" THEN <<>>
    ELSE IF outcome = "no json" THEN <<>>
    ELSE SelectSeq(listed, LAMBDA pr : StartsWith(pr.headRefName, prefix))

\* the status constants (consumer_update_utils.py lines 18-21)
STATUS_PR_AUTO_MERGE_ENABLED == "pr_auto_merge_enabled"
STATUS_PR_CREATED == "pr_created"
STATUS_NO_CHANGES == "no_changes"
STATUS_ERROR == "error"

\* the mutant of PrStatus: the status tells the configuration alone
PrStatusOfConfig(auto_merge_config, merge_enabled) ==
    IF auto_merge_config.enabled THEN STATUS_PR_AUTO_MERGE_ENABLED
    ELSE STATUS_PR_CREATED

\* create_pr_and_auto_merge, lines 307-313: merge_enabled is what
\* auto_merge_pr returned ("none": it was not called)
PrStatus(auto_merge_config, merge_enabled) ==
    IF auto_merge_config.enabled
    THEN IF merge_enabled = "True" THEN STATUS_PR_AUTO_MERGE_ENABLED
         ELSE STATUS_PR_CREATED
    ELSE STATUS_PR_CREATED

InitConsumer ==
    /\ PomIdle
    /\ ClockIdle
    /\ VerifyIdle
    /\ WaitIdle
    /\ at = "read_auto_merge_config"
    /\ project_yml \in ProjectYmls
    /\ yaml_installed \in BOOLEAN
    /\ config = "none"
    /\ pr_url = <<"pull", MaxPrs + 1>>
    /\ enabled = "none"
    /\ pr_result = NoResult
    /\ gh_calls = <<>>
    /\ \E branches \in SeqsUpTo(BranchPool, MaxPrs) :
          open_prs = [n \in 1..Len(branches) |-> OpenPr(n, branches[n])]
    /\ branch_prefix = Prefix
    /\ exclude_branch \in {NoBranch, <<"u", "-", "1">>, <<"f", "-", "1">>}
    /\ stale_prs = <<>>
    /\ idx = 0
    /\ closed = <<>>
    /\ RefsIdle
    /\ SettingsIdle

\* auto_merge_config = read_auto_merge_config(repo_dir)
ReadAutoMergeConfig ==
    /\ at = "read_auto_merge_config"
    /\ config' = read_auto_merge_config(project_yml, yaml_installed)
    /\ at' = IF config'.enabled THEN "auto_merge_pr" ELSE "close_stale_prs"
    /\ pr_result' = IF config'.enabled THEN pr_result
                     ELSE make_result(PrStatus(config', enabled), pr_url,
                                      None)
    /\ UNCHANGED <<not_consumer, project_yml, yaml_installed, pr_url,
                   enabled, close_vars, gh_calls>>

\* auto_merge_pr (consumer_update_utils.py lines 92-112) and what
\* create_pr_and_auto_merge returns after it (lines 309-315)
AutoMergePr ==
    /\ at = "auto_merge_pr"
    /\ \E result \in MergeOutcomes :
          /\ gh_calls' = Append(gh_calls,
                                GhCall("merge", TRUE, pr_url[2], result))
          /\ enabled' = IF result.returncode = 0 THEN "True" ELSE "False"
    /\ pr_result' = make_result(PrStatus(config, enabled'), pr_url, None)
    /\ at' = "close_stale_prs"
    /\ UNCHANGED <<not_consumer, project_yml, yaml_installed, config,
                   pr_url, close_vars>>

\* close_stale_prs, lines 178-179
FindOpenPrs ==
    /\ at = "close_stale_prs"
    /\ \E outcome \in ListOutcomes :
          /\ stale_prs' =
                find_open_prs_by_branch_prefix(outcome, open_prs,
                                               branch_prefix)
          /\ gh_calls' = Append(gh_calls,
                                GhCall("list", FALSE, 0,
                                       IF outcome = "failed" THEN Failed
                                       ELSE Ok))
    /\ idx' = 1
    /\ closed' = <<>>
    /\ at' = "closing"
    /\ UNCHANGED <<not_consumer, merge_vars, open_prs, branch_prefix,
                   exclude_branch>>

IsExcludedNever(pr, exclude) == FALSE
IsExcluded(pr, exclude) == exclude # NoBranch /\ pr.headRefName = exclude

\* one pass of the for loop of lines 181-212
CloseStalePr ==
    /\ at = "closing"
    /\ idx <= Len(stale_prs)
    /\ IF IsExcluded(stale_prs[idx], exclude_branch)
       THEN UNCHANGED <<gh_calls, closed>>
       ELSE \E commented \in GhResults : \E result \in GhResults :
               /\ gh_calls' =
                     gh_calls \o
                     << GhCall("comment", FALSE, stale_prs[idx].number,
                               commented),
                        GhCall("close", FALSE, stale_prs[idx].number,
                               result) >>
               /\ closed' = IF result.returncode = 0
                            THEN Append(closed, stale_prs[idx].url)
                            ELSE closed
    /\ idx' = idx + 1
    /\ UNCHANGED <<not_consumer, merge_vars, at, open_prs, branch_prefix,
                   exclude_branch, stale_prs>>

\* line 214
ReturnClosed ==
    /\ at = "closing"
    /\ idx > Len(stale_prs)
    /\ at' = "returned"
    /\ UNCHANGED <<not_consumer, consumer_vars>>

NextConsumer ==
    \/ ReadAutoMergeConfig
    \/ AutoMergePr
    \/ FindOpenPrs
    \/ CloseStalePr
    \/ ReturnClosed

SpecConsumer == InitConsumer /\ [][NextConsumer]_vars

CallsOf(cmd) == SelectSeq(gh_calls, LAMBDA c : c.cmd = cmd)
CallsOn(n) == SelectSeq(gh_calls, LAMBDA c : c.pr = n /\ c.cmd # "merge")
Succeeded(cs) == SelectSeq(cs, LAMBDA c : c.returncode = 0)
Urls(cs) == [k \in 1..Len(cs) |-> <<"pull", cs[k].pr>>]

\* gh was called on PR n exactly twice: a comment, then a close
CommentThenClose(n) ==
    /\ Len(CallsOn(n)) = 2
    /\ CallsOn(n)[1].cmd = "comment"
    /\ CallsOn(n)[2].cmd = "close"

NeverTouchesExcluded ==
    \A i \in 1..Len(open_prs) :
       (exclude_branch # NoBranch /\ open_prs[i].headRefName = exclude_branch)
          => CallsOn(open_prs[i].number) = <<>>

ReturnsClosedUrls ==
    at = "returned" => closed = Urls(Succeeded(CallsOf("close")))

\* C17: close_stale_prs never comments on or closes a PR whose head branch
\* is exclude_branch; every other open PR whose head branch starts with the
\* prefix gets a comment and then a close; the URLs of the PRs whose close
\* succeeded are returned; a failed close does not stop the loop.
C17_EveryOpenStalePrClosed ==
    /\ NeverTouchesExcluded
    /\ ReturnsClosedUrls
    /\ at = "returned" =>
          \A i \in 1..Len(open_prs) :
             ( /\ open_prs[i].headRefName # exclude_branch
               /\ StartsWith(open_prs[i].headRefName, branch_prefix) )
                => CommentThenClose(open_prs[i].number)

\* C17 as the code has it: the PRs in question are the PRs that
\* find_open_prs_by_branch_prefix returned, none when the listing failed or
\* was no JSON.
C17_EveryListedStalePrClosed ==
    /\ NeverTouchesExcluded
    /\ ReturnsClosedUrls
    /\ at = "returned" =>
          \A i \in 1..Len(stale_prs) :
             stale_prs[i].headRefName # exclude_branch
                => CommentThenClose(stale_prs[i].number)

\* the first stale PR is the excluded one, the close of the second fails,
\* the close of the third succeeds
C17_Witness ==
    /\ at = "returned"
    /\ Len(stale_prs) = 3
    /\ stale_prs[1].headRefName = exclude_branch
    /\ CallsOn(stale_prs[2].number)[2].returncode = 1
    /\ closed = <<stale_prs[3].url>>

\* C18: when "gh pr merge --auto" fails because the PR is in clean status,
\* auto_merge_pr calls gh a second time to merge without --auto, and returns
\* True exactly when one of the two calls succeeded.
C18_FallsBackToDirectMerge ==
    enabled # "none" =>
       /\ ( /\ CallsOf("merge")[1].returncode # 0
            /\ CallsOf("merge")[1].stderr = "clean status" )
             => /\ Len(CallsOf("merge")) = 2
                /\ ~CallsOf("merge")[2].auto
       /\ enabled = "True" <=> Succeeded(CallsOf("merge")) # <<>>

\* what C20 expects of the returned config
ExpectedEnabled(yml) ==
    IF yml.file = "mapping" /\ yml.automation = "mapping"
       /\ yml.versions # "absent"
    THEN Bool(yml.versions) ELSE TRUE
ExpectedTimeout(yml) ==
    IF yml.file = "mapping" /\ yml.automation = "mapping"
       /\ yml.build_timeout # "absent"
    THEN yml.build_timeout ELSE "240"

\* C20: read_auto_merge_config of update-consumer-repo.py returns enabled
\* (default True, overridden by auto-merge-build-versions) and timeout
\* (default 240, overridden by auto-merge-build-timeout), both defaults when
\* project.yml is missing, has no github-automation section or is invalid.
C20_ConfigHasEnabledAndTimeout ==
    (at # "read_auto_merge_config" /\ yaml_installed) =>
       /\ config.enabled = ExpectedEnabled(project_yml)
       /\ "timeout" \in DOMAIN config
       /\ config.timeout = ExpectedTimeout(project_yml)

\* ------------------------------------------------------------------------
\* update-workflow-references.py, normal (SHA) mode
\* ------------------------------------------------------------------------
MaxFiles == 2
MaxLines == 2
ShaLength == 40

Org ==
    <<"c", "u", "i", "o", "s", "s", "/", "c", "u", "i", "o", "s", "s", "-",
    "o", "r", "g", "a", "n", "i", "z", "a", "t", "i", "o", "n", "/">>
Uses ==
    <<"u", "s", "e", "s", ":">>
TemplateOpen ==
    <<"$", "{", "{">>

Hex == {"a", "b", "c", "d", "e", "f"} \cup Digits
DigitsAndDot == Digits \cup {"."}

\* [^@]+ at position i: the position of the "@" that ends it, or 0
RECURSIVE NextAt(_, _)
NextAt(s, i) ==
    IF i > Len(s) THEN 0 ELSE IF s[i] = "@" THEN i ELSE NextAt(s, i + 1)
PathEnd(s, i) ==
    IF i = 0 THEN 0
    ELSE The({ IF k > i THEN k ELSE 0 : k \in {NextAt(s, i)} })

\* a run of the characters of set at position i: the position after it
RECURSIVE SkipIn(_, _, _)
SkipIn(s, i, set) ==
    IF i <= Len(s) /\ s[i] \in set THEN SkipIn(s, i + 1, set) ELSE i
RECURSIVE SkipRef(_, _)
SkipRef(s, i) ==
    IF i <= Len(s) /\ s[i] \notin (Whitespace \cup {"#"})
    THEN SkipRef(s, i + 1) ELSE i

IsAt(s, i, ch) == i <= Len(s) /\ s[i] = ch

\* (\s*#\s*v[\d.]+)? at position i: the position after it (i when the
\* group does not take part)
OptionalComment(s, i) ==
    The({ IF IsAt(s, h, "#")
          THEN The({ IF IsAt(s, v, "v") /\ SkipIn(s, v + 1, DigitsAndDot) > v + 1
                     THEN SkipIn(s, v + 1, DigitsAndDot) ELSE i :
                     v \in {SkipWs(s, h + 1)} })
          ELSE i : h \in {SkipWs(s, i)} })

\* cuioss/cuioss-organization/[^@]+@ at position i: the position after the
\* "@", or 0
OrgRefAt(s, i) ==
    The({ IF at_sign = 0 THEN 0 ELSE at_sign + 1 :
          at_sign \in {PathEnd(s, MatchLit(s, i, Org))} })

IsHexRun(s, i, n) ==
    i + n - 1 <= Len(s) /\ \A k \in i..(i + n - 1) : s[k] \in Hex

\* SHA_DISCOVERY_PATTERN.search(text): group 1 of the leftmost match, or None
ShaHits(s) ==
    { i \in 1..Len(s) :
         s[i] = Org[1] /\ OrgRefAt(s, i) # 0
         /\ IsHexRun(s, OrgRefAt(s, i), ShaLength) }
FirstOf(hits) == CHOOSE i \in hits : \A h \in hits : i <= h
DiscoverIn(s) ==
    IF ShaHits(s) = {} THEN None
    ELSE The({ SubSeq(s, r, r + ShaLength - 1) :
               r \in {OrgRefAt(s, FirstOf(ShaHits(s)))} })

\* re.search(r'cuioss/cuioss-organization/[^@]+@\$\{\{', content)
HasTemplateRef(s) ==
    \E i \in 1..Len(s) :
       s[i] = Org[1] /\ OrgRefAt(s, i) # 0
       /\ MatchLit(s, OrgRefAt(s, i), TemplateOpen) # 0
HasTemplateRefNever(s) == FALSE

\* pass 1: re.sub(rf'{old_sha}(\s*#\s*v[\d.]+)?', new_ref, text)
ShaAt(s, i, old) ==
    The({ IF e = 0 THEN 0 ELSE OptionalComment(s, e) :
          e \in {MatchLit(s, i, old)} })
RECURSIVE SubSha(_, _, _, _)
SubShaHit(s, i, hits, old, new_ref) ==
    IF hits = {} THEN SubSeq(s, i, Len(s))
    ELSE The({ SubSeq(s, i, j - 1)
               \o ExpandTemplate(new_ref, <<SubSeq(s, j + Len(old),
                                                   ShaAt(s, j, old) - 1),
                                            <<>>, <<>> >>)
               \o SubSha(s, ShaAt(s, j, old), old, new_ref) :
               j \in {FirstOf(hits)} })
SubSha(s, i, old, new_ref) ==
    SubShaHit(s, i, { j \in i..Len(s) : s[j] = old[1] /\ ShaAt(s, j, old) # 0 },
              old, new_ref)

\* CUIOSS_REF_PATTERN at position i: where group 1 ends (the "@") and where
\* the match ends, or <<0, 0>>
RefAt(s, i) ==
    The({ IF after = 0 \/ SkipRef(s, after) = after THEN <<0, 0>>
          ELSE <<after - 1, OptionalComment(s, SkipRef(s, after))>> :
          after \in { The({ IF u = 0 THEN 0 ELSE OrgRefAt(s, SkipWs(s, u)) :
                            u \in {MatchLit(s, i, Uses)} }) } })

\* pass 2: CUIOSS_REF_PATTERN.sub(rf'\1@{sha}{comment_suffix}', text)
RefTemplate(new_sha, comment_suffix) ==
    <<Backslash, "1", "@">> \o new_sha \o comment_suffix
RECURSIVE SubRef(_, _, _)
SubRefHit(s, i, hits, tpl) ==
    IF hits = {} THEN SubSeq(s, i, Len(s))
    ELSE The({ SubSeq(s, i, j - 1)
               \o ExpandTemplate(tpl, <<SubSeq(s, j, RefAt(s, j)[1] - 1),
                                        <<>>, <<>> >>)
               \o SubRef(s, RefAt(s, j)[2], tpl) :
               j \in {FirstOf(hits)} })
SubRef(s, i, tpl) ==
    SubRefHit(s, i, { j \in i..Len(s) : s[j] = Uses[1] /\ RefAt(s, j)[2] # 0 },
              tpl)

\* the lines of the scanned files: a cuioss-organization reference with its
\* ref and comment, a mention of the repository without a ref, a reference
\* to another action with a template expression as ref
OldSha == [i \in 1..ShaLength |-> "a"]
NewSha == [i \in 1..ShaLength |-> "b"]
Main == <<"m", "a", "i", "n">>
Tag == <<"v", "0", ".", "1">>
TemplateRef == TemplateOpen \o <<"x", "}", "}">>
NoComment == <<>>
OldComment == <<" ", "#", " ", "v", "0", ".", "1">>

Line(kind, ref, comment) == [kind |-> kind, ref |-> ref, comment |-> comment]
RefLine(ref, comment) == Line("ref", ref, comment)
LinePool ==
    { RefLine(OldSha, OldComment), RefLine(NewSha, OldComment),
      RefLine(Main, NoComment), RefLine(Tag, NoComment),
      RefLine(TemplateRef, NoComment),
      Line("mention", <<>>, <<>>), Line("other", TemplateRef, <<>>) }

RenderLine(l) ==
    CASE l.kind = "ref" ->
            Uses \o <<" ">> \o Org \o <<"a", "@">> \o l.ref \o l.comment
            \o <<"\n">>
      [] l.kind = "mention" -> <<"#", " ">> \o Org \o <<"R", "\n">>
      [] l.kind = "other" ->
            Uses \o <<" ", "o", "/", "a", "@">> \o l.ref \o <<"\n">>

RECURSIVE RenderLines(_)
RenderLines(ls) ==
    IF ls = <<>> THEN <<>> ELSE RenderLine(Head(ls)) \o RenderLines(Tail(ls))

\* a file: whether it is a docs/workflow-examples/*.yml, and its lines
FilePool == [example : BOOLEAN, lines : SeqsUpTo(LinePool, MaxLines)]

\* discover_old_sha: the workflow examples first, then every file
RECURSIVE FirstSha(_, _, _)
FirstSha(texts, files, examples_only) ==
    IF texts = <<>> THEN None
    ELSE IF (examples_only => Head(files).example)
            /\ DiscoverIn(Head(texts)) # None
    THEN DiscoverIn(Head(texts))
    ELSE FirstSha(Tail(texts), Tail(files), examples_only)
discover_old_sha(texts, files) ==
    IF FirstSha(texts, files, TRUE) # None THEN FirstSha(texts, files, TRUE)
    ELSE FirstSha(texts, files, FALSE)

CommentSuffix(v) == <<" ", "#", " ", "v">> \o v
NewRef(new_sha, v) == new_sha \o CommentSuffix(v)

\* lines 141-155: the two passes over one file
Pass1(content, old, new_sha, v) ==
    IF old # None /\ Contains(content, old)
    THEN SubSha(content, 1, old, NewRef(new_sha, v))
    ELSE content
Pass2(content, new_sha, v) ==
    SubRef(content, 1, RefTemplate(new_sha, CommentSuffix(v)))
NewContent(content, old, new_sha, v) ==
    IF HasTemplateRef(content) THEN content
    ELSE Pass2(Pass1(content, old, new_sha, v), new_sha, v)

InitRefs ==
    /\ PomIdle
    /\ ClockIdle
    /\ VerifyIdle
    /\ WaitIdle
    /\ ConsumerIdle
    /\ SettingsIdle
    /\ at = "update_workflow_references"
    /\ repo \in SeqsUpTo(FilePool, MaxFiles)
    /\ contents = [f \in 1..Len(repo) |-> RenderLines(repo[f].lines)]
    /\ sha = NewSha
    /\ version = <<"1", ".", "2", ".", "3">>
    /\ old_sha = None
    /\ fpos = 0
    /\ modified_files = <<>>

\* lines 114-128
DiscoverOldSha ==
    /\ at = "update_workflow_references"
    /\ old_sha' = discover_old_sha(contents, repo)
    /\ at' = IF old_sha' = sha THEN "returned" ELSE "updating"
    /\ fpos' = 1
    /\ modified_files' = <<>>
    /\ UNCHANGED <<not_refs, repo, contents, sha, version>>

\* one pass of the for loop of lines 130-160
UpdateFile ==
    /\ at = "updating"
    /\ fpos <= Len(contents)
    /\ \E new_content \in {NewContent(contents[fpos], old_sha, sha, version)} :
          /\ contents' = [contents EXCEPT ![fpos] = new_content]
          /\ modified_files' = IF new_content # contents[fpos]
                               THEN Append(modified_files, fpos)
                               ELSE modified_files
    /\ fpos' = fpos + 1
    /\ UNCHANGED <<not_refs, at, repo, sha, version, old_sha>>

\* line 162
ReturnModified ==
    /\ at = "updating"
    /\ fpos > Len(contents)
    /\ at' = "returned"
    /\ UNCHANGED <<not_refs, refs_vars>>

NextRefs ==
    \/ DiscoverOldSha
    \/ UpdateFile
    \/ ReturnModified

SpecRefs == InitRefs /\ [][NextRefs]_vars

\* a file with a cuioss-organization reference whose ref is a template
\* expression
HasTemplateLine(file) ==
    \E k \in 1..Len(file.lines) :
       file.lines[k].kind = "ref" /\ file.lines[k].ref = TemplateRef

\* the lines with every cuioss-organization reference pinned
Pinned(ls) ==
    [k \in 1..Len(ls) |->
        IF ls[k].kind = "ref"
        THEN RefLine(sha, CommentSuffix(version)) ELSE ls[k]]

\* C19: in SHA mode update_workflow_references leaves every file with a
\* cuioss-organization reference whose ref is a template expression
\* byte-identical, whether or not an old SHA was discovered, and in every
\* other scanned file each uses: cuioss/cuioss-organization/...@<ref>
\* reference ends up as @<sha> # v<version>.
C19_TemplateFilesKeptOthersPinned ==
    at = "returned" =>
       \A f \in 1..Len(repo) :
          contents[f] =
             IF HasTemplateLine(repo[f]) THEN RenderLines(repo[f].lines)
             ELSE RenderLines(Pinned(repo[f].lines))

\* ========================================================================
\* update-consumer-dependency.py: update_consumer_dependency, from the
\* clone to the returned result.  The POM files are documents of one block;
\* gh_calls logs the git and gh commands in the order they are run.
\* ========================================================================
ChoreUpdate ==
    <<"c", "h", "o", "r", "e", "/", "u", "p", "d", "a", "t", "e", "-">>

\* lines 221-228
_make_branch_name(artifact, new) == ChoreUpdate \o artifact \o <<"-">> \o new
_make_branch_prefix(artifact) == ChoreUpdate \o artifact \o <<"-">>

\* another artifact the consumer repository is updated for
ArtifactABC == ArtifactAB \o <<"-", "c">>
UpdatedArtifacts == {ArtifactAB, ArtifactABC}

\* the head branches of the PRs that are open before the run
OpenBranches ==
    { _make_branch_name(ArtifactAB, V1), _make_branch_name(ArtifactABC, V1),
      <<"f", "-", "1">> }

FlowYmls ==
    { ProjectYml("missing", "absent", "absent", "absent"),
      ProjectYml("mapping", "mapping", "false", "absent") }

\* the POM files of the clone, in the order of find_pom_files
FlowLayouts(s) ==
    IF s = "parent" THEN { <<main>> : main \in [1..1 -> ParentPool] }
    ELSE { <<main>> : main \in [1..1 -> DependencyPool] }
         \cup { << <<other>>, main >> :
                   other \in OtherPool,
                   main \in { m \in [1..1 -> DependencyPool] :
                                 HasReference(m) } }

\* lines 244-245
Branch == _make_branch_name(artifact_id, new_version)

InitFlow ==
    /\ scope \in {"parent", "dependency"}
    /\ layout \in FlowLayouts(scope)
    /\ cur = Len(layout)
    /\ supplied = TRUE
    /\ all_pom_contents = RenderAll(layout)
    /\ group_id = GroupG
    /\ artifact_id = ArtifactAB
    /\ new_version \in {V1, V2}
    /\ phase = "ready"
    /\ calls = 0
    /\ call_input = <<>>
    /\ updated = <<>>
    /\ old_version = None
    /\ updated_poms = NoPoms
    /\ raised = FALSE
    /\ at = "update_consumer_dependency"
    /\ ClockIdle
    /\ VerifyIdle
    /\ WaitIdle
    /\ RefsIdle
    /\ SettingsIdle
    /\ project_yml \in FlowYmls
    /\ yaml_installed = TRUE
    /\ config = "none"
    /\ pr_url = None
    /\ enabled = "none"
    /\ pr_result = NoResult
    /\ gh_calls = <<>>
    /\ \E branches \in SeqsUpTo(OpenBranches, MaxPrs) :
          open_prs = [n \in 1..Len(branches) |-> OpenPr(n, branches[n])]
    /\ branch_prefix = _make_branch_prefix(artifact_id)
    /\ exclude_branch = NoBranch
    /\ stale_prs = <<>>
    /\ idx = 0
    /\ closed = <<>>

flow_others == <<clock_vars, verify_vars, wait_vars, refs_vars,
                 settings_vars>>
rewrite_vars == <<all_pom_contents, phase, calls, call_input, updated,
                  old_version, updated_poms, raised>>

\* "if x:" of a text or None
IsTruthy(text) == text # None /\ text # <<>>

\* lines 250-263: clone, then read the auto-merge configuration
Clone ==
    /\ at = "update_consumer_dependency"
    /\ \E result \in GhResults :
          /\ gh_calls' = Append(gh_calls, GhCall("clone", FALSE, 0, result))
          /\ IF result.returncode # 0
             THEN /\ pr_result' = make_result(STATUS_ERROR, None,
                                              <<"Clone failed">>)
                  /\ at' = "returned"
                  /\ UNCHANGED config
             ELSE /\ config' = read_auto_merge_config(project_yml,
                                                      yaml_installed)
                  /\ at' = "rewrite"
                  /\ UNCHANGED pr_result
    /\ UNCHANGED <<inputs, rewrite_vars, flow_others, project_yml,
                   yaml_installed, pr_url, enabled, close_vars>>

\* lines 297-315 for scope dependency: the files in order, up to the first
\* one for which an old version is reported (0: none)
DependencyResults ==
    [p \in 1..Len(all_pom_contents) |->
        update_dependency_version(all_pom_contents[p], group_id,
                                  artifact_id, new_version,
                                  all_pom_contents)]
FirstReported(rs) ==
    IF \E p \in 1..Len(rs) : IsTruthy(rs[p].old_version)
    THEN CHOOSE p \in 1..Len(rs) :
            /\ IsTruthy(rs[p].old_version)
            /\ \A q \in 1..(p - 1) : ~IsTruthy(rs[q].old_version)
    ELSE 0
LastCalled(rs) == IF FirstReported(rs) = 0 THEN Len(rs) ELSE FirstReported(rs)

\* what the files hold after the writes of lines 292-314
Written(rs) ==
    IF scope = "parent"
    THEN [p \in 1..Len(all_pom_contents) |->
            IF p = 1 /\ IsTruthy(rs[1].old_version) THEN rs[1].updated
            ELSE all_pom_contents[p]]
    ELSE [p \in 1..Len(all_pom_contents) |->
            IF FirstReported(rs) = 0 THEN all_pom_contents[p]
            ELSE IF p \in DOMAIN rs[FirstReported(rs)].updated_poms
            THEN rs[FirstReported(rs)].updated_poms[p]
            ELSE IF p = FirstReported(rs) THEN rs[p].updated
            ELSE all_pom_contents[p]]

\* lines 277-315: the rewrite of the POM files of the clone
Rewrite ==
    /\ at = "rewrite"
    /\ \E rs \in { IF scope = "parent"
                   THEN << update_parent_version(all_pom_contents[1],
                                                 group_id, artifact_id,
                                                 new_version) >>
                   ELSE DependencyResults } :
          /\ call_input' = all_pom_contents
          /\ updated' = rs[LastCalled(rs)].updated
          /\ old_version' = rs[LastCalled(rs)].old_version
          /\ updated_poms' = rs[LastCalled(rs)].updated_poms
          /\ raised' = \E p \in 1..LastCalled(rs) : rs[p].raised
          /\ all_pom_contents' = IF raised' THEN all_pom_contents
                                 ELSE Written(rs)
          /\ at' = IF raised' THEN "raised" ELSE "git diff"
    /\ phase' = "called"
    /\ calls' = 1
    /\ UNCHANGED <<inputs, flow_others, consumer_vars>>

\* the working tree differs from the clone
TreeChanged == all_pom_contents # call_input

\* the mutant of ClosesStale: stale PRs are closed whatever was returned
ClosesStaleAlways(result) == TRUE

\* line 362: if pr_result["pr_url"]
ClosesStale(result) == IsTruthy(result.pr_url)

\* lines 317-327: git diff --quiet; without changes the stale PRs are
\* closed and no_changes is returned
GitDiff ==
    /\ at = "git diff"
    /\ gh_calls' = Append(gh_calls,
                          GhCall("diff", FALSE, 0,
                                 IF TreeChanged THEN Failed ELSE Ok))
    /\ IF TreeChanged
       THEN /\ at' = "checkout"
            /\ UNCHANGED pr_result
       ELSE /\ at' = "close_stale_prs"
            /\ pr_result' = make_result(STATUS_NO_CHANGES, None, None)
    /\ UNCHANGED <<pom_vars, flow_others, project_yml, yaml_installed,
                   config, pr_url, enabled, close_vars>>

\* lines 334-345: git checkout -b, git config, git add, git commit, each
\* raising CalledProcessError when it fails
CommitSteps == <<"checkout", "config", "add", "commit">>
CommitBranch ==
    /\ at = "checkout"
    /\ \E done \in 1..Len(CommitSteps) : \E result \in GhResults :
          /\ result.returncode = 0 => done = Len(CommitSteps)
          /\ gh_calls' =
                gh_calls
                \o [k \in 1..done |->
                      GhCall(CommitSteps[k], FALSE, 0,
                             IF k < done THEN Ok ELSE result)]
          /\ at' = IF result.returncode = 0 THEN "push" ELSE "raised"
    /\ UNCHANGED <<pom_vars, flow_others, merge_vars, close_vars>>

\* what update_consumer_dependency does with the result of
\* create_pr_and_auto_merge (lines 361-371)
AfterCreatePr(result) ==
    /\ pr_result' = result
    /\ IF ClosesStale(result)
       THEN /\ exclude_branch' = Branch
            /\ at' = "close_stale_prs"
       ELSE /\ at' = "returned"
            /\ UNCHANGED exclude_branch

\* create_pr_and_auto_merge, lines 270-276
Push ==
    /\ at = "push"
    /\ \E result \in GhResults :
          /\ gh_calls' = Append(gh_calls, GhCall("push", FALSE, 0, result))
          /\ IF result.returncode # 0
             THEN AfterCreatePr(make_result(STATUS_ERROR, None,
                                            <<"Push failed">>))
             ELSE /\ at' = "create"
                  /\ UNCHANGED <<pr_result, exclude_branch>>
    /\ UNCHANGED <<pom_vars, flow_others, project_yml, yaml_installed,
                   config, pr_url, enabled, open_prs, branch_prefix,
                   stale_prs, idx, closed>>

\* create_pr_and_auto_merge, lines 278-315 without the call of
\* auto_merge_pr: the new PR is open on the new branch
CreatePr ==
    /\ at = "create"
    /\ \E result \in GhResults :
          /\ gh_calls' = Append(gh_calls,
                                GhCall("create", FALSE,
                                       IF result.returncode = 0
                                       THEN MaxPrs + 1 ELSE 0, result))
          /\ IF result.returncode # 0
             THEN /\ AfterCreatePr(make_result(STATUS_ERROR, None,
                                               <<"PR creation failed">>))
                  /\ UNCHANGED <<pr_url, open_prs>>
             ELSE /\ pr_url' = <<"pull", MaxPrs + 1>>
                  /\ open_prs' = Append(open_prs, OpenPr(MaxPrs + 1, Branch))
                  /\ IF config.enabled
                     THEN /\ at' = "auto_merge_pr"
                          /\ exclude_branch' = Branch
                          /\ UNCHANGED pr_result
                     ELSE AfterCreatePr(make_result(PrStatus(config, enabled),
                                                    pr_url', None))
    /\ UNCHANGED <<pom_vars, flow_others, project_yml, yaml_installed,
                   config, enabled, branch_prefix, stale_prs, idx, closed>>

NextFlow ==
    \/ Clone
    \/ Rewrite
    \/ GitDiff
    \/ CommitBranch
    \/ Push
    \/ CreatePr
    \/ AutoMergePr
    \/ FindOpenPrs
    \/ CloseStalePr
    \/ ReturnClosed

SpecFlow == InitFlow /\ [][NextFlow]_vars

FlowTypeOK ==
    /\ at \in {"update_consumer_dependency", "rewrite", "git diff",
               "checkout", "push", "create", "auto_merge_pr",
               "close_stale_prs", "closing", "returned", "raised"}
    /\ ~raised

\* the branch was produced by _make_branch_name for artifact b
ProducedFor(branch, b) ==
    \E v \in {V1, V2} : branch = _make_branch_name(b, v)

\* the open PR with number n
PrNumbered(n) == open_prs[The({ k \in 1..Len(open_prs) : open_prs[k].number = n })]

\* C23: closing superseded PRs for artifact A affects only PRs created for
\* artifact A: a PR whose branch was produced by _make_branch_name(B, v)
\* for another artifact B is never selected by
\* find_open_prs_by_branch_prefix with _make_branch_prefix(A) and never
\* closed by an update of A.
C23_OnlyOwnArtifactPrsClosed ==
    \A b \in UpdatedArtifacts \ {artifact_id} :
       /\ \A k \in 1..Len(stale_prs) :
             ~ProducedFor(stale_prs[k].headRefName, b)
       /\ \A k \in 1..Len(gh_calls) :
             gh_calls[k].cmd = "close"
                => ~ProducedFor(PrNumbered(gh_calls[k].pr).headRefName, b)

\* the run went the way of lines 319-327: nothing to commit
NoChangesRun == pr_result.status = STATUS_NO_CHANGES

\* a comment was sent to, or a close asked for, some PR
TouchedSomePr ==
    \E k \in 1..Len(gh_calls) : gh_calls[k].cmd \in {"comment", "close"}

\* C22: update_consumer_dependency closes open update PRs with the reason
\* "<repo> already uses <artifact> <new_version>" only when the
\* repository's declaration of the coordinate is at new_version; a run
\* that changed nothing because the current version is a SNAPSHOT, the
\* coordinate was not found or the referenced property could not be
\* resolved closes no pull request.
C22_AlreadyUsesOnlyAtNewVersion ==
    (NoChangesRun /\ TouchedSomePr) => CurrentVersion = new_version

\* where in the log of commands cmd was run, and where it failed
Positions(cmd) == { k \in 1..Len(gh_calls) : gh_calls[k].cmd = cmd }
FailedAt(cmd) == { k \in Positions(cmd) : gh_calls[k].returncode # 0 }
SucceededBefore(cmd, k) ==
    \E j \in Positions(cmd) : j < k /\ gh_calls[j].returncode = 0

PrStatuses2 == {STATUS_PR_CREATED, STATUS_PR_AUTO_MERGE_ENABLED}
ReturnedError ==
    /\ pr_result.status = STATUS_ERROR
    /\ pr_result.pr_url = None

\* C27: create_pr_and_auto_merge performs push, then PR creation, then
\* (only when the auto-merge configuration is enabled) the auto-merge
\* request, in this order: a failed push means no PR is created, a failed
\* PR creation means auto-merge is not requested, and both yield status
\* error with pr_url null; the returned status is pr_auto_merge_enabled if
\* and only if the configuration is enabled and auto_merge_pr returned
\* True, otherwise pr_created; pr_url is non-null exactly for these two
\* statuses.
C27_PushCreateMergeInOrder ==
    /\ \A cmd \in {"push", "create", "merge"} :
          Cardinality(Positions(cmd)) <= 1
    /\ \A c \in Positions("create") : SucceededBefore("push", c)
    /\ \A m \in Positions("merge") :
          config.enabled /\ SucceededBefore("create", m)
    /\ FailedAt("push") # {} => (Positions("create") = {} /\ ReturnedError)
    /\ FailedAt("create") # {} => (Positions("merge") = {} /\ ReturnedError)
    /\ pr_result.status \in PrStatuses2 =>
          /\ FailedAt("push") = {} /\ FailedAt("create") = {}
          /\ Positions("create") # {}
          /\ config.enabled => Positions("merge") # {}
          /\ pr_result.status = STATUS_PR_AUTO_MERGE_ENABLED
                <=> (config.enabled /\ enabled = "True")
          /\ enabled = "True"
                <=> (Positions("merge") # {} /\ FailedAt("merge") = {})
    /\ pr_result.pr_url # None <=> pr_result.status \in PrStatuses2

\* the configuration is enabled, the auto-merge request failed: pr_created
C27_Witness ==
    /\ at = "returned"
    /\ FailedAt("merge") # {}
    /\ config.enabled
    /\ pr_result = make_result(STATUS_PR_CREATED, <<"pull", MaxPrs + 1>>,
                               None)

\* the commands of the kinds named in steps, in the order they were run
Ran(steps) ==
    LET picked == SelectSeq(gh_calls, LAMBDA c : c.cmd \in steps)
    IN [k \in 1..Len(picked) |-> picked[k].cmd]
IsPrefix(s, t) == Len(s) <= Len(t) /\ s = SubSeq(t, 1, Len(s))

PublishSteps == <<"checkout", "commit", "push", "create">>
Touches == Positions("comment") \cup Positions("close")

\* C21: update_consumer_dependency, when the rewrite changed the working
\* tree, creates the branch, commits, pushes and creates the PR in this
\* order, and closes older update PRs only after the PR was created
\* successfully (non-empty pr_url), never the PR on the new branch
\* chore/update-<artifact>-<version>; if the push or the PR creation fails
\* no PR is closed and the status is error.  When the working tree is
\* unchanged it creates no branch, commit, push or PR and returns
\* no_changes.
C21_BranchCommitPushPrThenClose ==
    /\ IsPrefix(Ran({"checkout", "commit", "push", "create"}), PublishSteps)
    /\ (phase = "called" /\ TreeChanged) =>
          /\ at \in {"push", "create", "auto_merge_pr", "close_stale_prs",
                     "closing", "returned"}
                => IsPrefix(<<"checkout", "commit">>,
                            Ran({"checkout", "commit", "push", "create"}))
          /\ \A k \in Touches :
                /\ SucceededBefore("create", k)
                /\ IsTruthy(pr_result.pr_url)
                /\ PrNumbered(gh_calls[k].pr).headRefName # Branch
          /\ (FailedAt("push") # {} \/ FailedAt("create") # {}) =>
                /\ Touches = {}
                /\ at = "returned"
                /\ pr_result.status = STATUS_ERROR
          /\ at = "returned" =>
                \/ FailedAt("push") # {}
                \/ Ran({"checkout", "commit", "push", "create"})
                      = PublishSteps
    /\ (phase = "called" /\ ~TreeChanged /\ at # "git diff") =>
          /\ Ran({"checkout", "commit", "push", "create"}) = <<>>
          /\ NoChangesRun

\* the PR was created, an older PR was closed, and the PR on the new branch
\* is among the open ones selected by the prefix
C21_Witness ==
    /\ at = "returned"
    /\ TreeChanged
    /\ closed # <<>>
    /\ \E k \in 1..Len(stale_prs) : stale_prs[k].headRefName = Branch
    /\ pr_result.status = STATUS_PR_AUTO_MERGE_ENABLED

\* ========================================================================
\* repo-settings/setup-repo-settings.py: --diff and --apply of one
\* repository.  Setting values are the texts of the Python values ("True",
\* "False", "None", the squash merge texts).
\* ========================================================================
FeatureKeys == <<"has_issues", "has_wiki", "has_projects", "has_discussions">>
MergeKeys ==
    <<"allow_squash_merge", "allow_merge_commit", "allow_rebase_merge",
      "delete_branch_on_merge", "allow_auto_merge",
      "squash_merge_commit_title", "squash_merge_commit_message">>
SecurityKeys ==
    <<"private_vulnerability_reporting", "dependabot_alerts",
      "dependabot_security_updates", "secret_scanning",
      "secret_scanning_push_protection">>
KeySet(keys) == { keys[k] : k \in 1..Len(keys) }

\* the configuration of the tests, and variations of it
TestFeatures ==
    [k \in KeySet(FeatureKeys) |->
        IF k = "has_issues" THEN "True" ELSE "False"]
TestMerge ==
    [k \in KeySet(MergeKeys) |->
        CASE k = "allow_auto_merge" -> "False"
          [] k = "squash_merge_commit_title" -> "PR_TITLE"
          [] k = "squash_merge_commit_message" -> "PR_BODY"
          [] OTHER -> "True"]
DesiredSecurity ==
    { [k \in KeySet(SecurityKeys) |-> "True"],
      [k \in KeySet(SecurityKeys) |-> "False"],
      [k \in KeySet(SecurityKeys) |->
          IF k = "dependabot_alerts" THEN "False" ELSE "True"] }
DesiredConfigs ==
    { [features |-> f, merge |-> TestMerge, security |-> sec] :
         f \in {TestFeatures, [TestFeatures EXCEPT !["has_wiki"] = "True"]},
         sec \in DesiredSecurity }

\* another value of a setting
Other(v) ==
    CASE v = "True" -> "False"
      [] v = "False" -> "True"
      [] v = "PR_TITLE" -> "COMMIT_OR_PR_TITLE"
      [] OTHER -> "COMMIT_MESSAGES"

\* the settings of the repository on GitHub: the desired ones, or all but
\* one of them
GithubNear(d) ==
    {d}
    \cup { [d EXCEPT !.features[k] = Other(@)] : k \in KeySet(FeatureKeys) }
    \cup { [d EXCEPT !.merge[k] = Other(@)] : k \in KeySet(MergeKeys) }
    \cup { [d EXCEPT !.security[k] = Other(@)] : k \in KeySet(SecurityKeys) }

\* how the five gh api queries of a fetch end for repository settings g.
\* GET .../vulnerability-alerts answers 204 (gh exits 0, no output) when the
\* alerts are enabled and 404 (gh exits 1) when they are not; a query may
\* also fail for other reasons.  gh exits with 0 or 1.
Queries ==
    {"repo", "private-vulnerability-reporting", "vulnerability-alerts",
     "automated-security-fixes", "security_and_analysis"}
GhCodes(g) ==
    { c \in [Queries -> {0, 1}] :
         g.security["dependabot_alerts"] = "False"
            => c["vulnerability-alerts"] = 1 }
Status(v) == IF v = "True" THEN "enabled" ELSE "disabled"

\* get_current_settings (lines 74-100); NoSettings: None
NoSettings == [none |-> TRUE]
IsNoSettings(c) == "none" \in DOMAIN c
get_current_settings(g, codes) ==
    IF codes["repo"] # 0 THEN NoSettings
    ELSE [features |-> g.features, merge |-> g.merge]

\* line 119: result.returncode == 204
AlertsEnabled(returncode) == returncode = 204

PyBool(b) == IF b THEN "True" ELSE "False"

\* get_current_security_settings (lines 103-149)
get_current_security_settings(g, codes) ==
    [k \in KeySet(SecurityKeys) |->
        CASE k = "private_vulnerability_reporting" ->
                IF codes["private-vulnerability-reporting"] = 0
                THEN PyBool(g.security[k] = "True")   \* stdout "true"
                ELSE "None"
          [] k = "dependabot_alerts" ->
                PyBool(AlertsEnabled(codes["vulnerability-alerts"]))
          [] k = "dependabot_security_updates" ->
                IF codes["automated-security-fixes"] = 0
                THEN g.security[k]                     \* data["enabled"]
                ELSE "None"
          [] OTHER ->
                IF codes["security_and_analysis"] = 0
                THEN PyBool(Status(g.security[k]) = "enabled")
                ELSE "None"]

Change(category, setting, cur_value, desired_value) ==
    [category |-> category, setting |-> setting, current |-> cur_value,
     desired |-> desired_value]

\* one of the three loops of compute_diff (lines 170-201)
Changes(category, keys, cur_values, desired_values) ==
    LET differing == SelectSeq(keys, LAMBDA k :
                                  cur_values[k] # desired_values[k])
    IN [i \in 1..Len(differing) |->
          Change(category, differing[i], cur_values[differing[i]],
                 desired_values[differing[i]])]

\* compute_diff (lines 152-203)
compute_diff(fetched, fetched_security, d) ==
    IF IsNoSettings(fetched) THEN [error |-> "Could not fetch settings"]
    ELSE [changes |->
            Changes("features", FeatureKeys, fetched.features, d.features)
            \o Changes("merge", MergeKeys, fetched.merge, d.merge)
            \o Changes("security", SecurityKeys, fetched_security, d.security)]

\* verify_settings (lines 305-350)
verify_settings(fetched, fetched_security, d) ==
    IF IsNoSettings(fetched) THEN FALSE
    ELSE /\ \A k \in KeySet(FeatureKeys) : fetched.features[k] = d.features[k]
         /\ \A k \in KeySet(MergeKeys) : fetched.merge[k] = d.merge[k]
         /\ \A k \in KeySet(SecurityKeys) :
               fetched_security[k] = "None" \/ fetched_security[k] = d.security[k]

InitSettings ==
    /\ PomIdle
    /\ ClockIdle
    /\ VerifyIdle
    /\ WaitIdle
    /\ ConsumerIdle
    /\ RefsIdle
    /\ at \in {"compute_diff", "apply_repo_settings"}
    /\ desired \in DesiredConfigs
    /\ github \in GithubNear(desired)
    /\ gh_codes = "none"
    /\ current = "none"
    /\ current_security = "none"
    /\ diff = "none"
    /\ all_passed = "none"
    /\ exit_code = 0

\* the two fetches at the head of compute_diff and of verify_settings
Fetch(codes) ==
    /\ gh_codes' = codes
    /\ current' = get_current_settings(github, codes)
    /\ current_security' = get_current_security_settings(github, codes)

\* main, lines 415-418: --repo NAME --diff
ComputeDiff ==
    /\ at = "compute_diff"
    /\ \E codes \in GhCodes(github) : Fetch(codes)
    /\ diff' = compute_diff(current', current_security', desired)
    /\ at' = "diffed"
    /\ UNCHANGED <<not_settings, desired, github, all_passed, exit_code>>

\* apply_repo_settings (lines 206-236): one PATCH with all feature and
\* merge settings
ApplyRepoSettings ==
    /\ at = "apply_repo_settings"
    /\ \E returncode \in {0, 1} :
          github' = IF returncode = 0
                    THEN [github EXCEPT !.features = desired.features,
                                        !.merge = desired.merge]
                    ELSE github
    /\ at' = "apply_security_settings"
    /\ UNCHANGED <<not_settings, desired, gh_codes, current,
                   current_security, diff, all_passed, exit_code>>

\* apply_security_settings (lines 239-302): one request for each setting
\* the configuration wants enabled; succeeded: the ones GitHub accepted
ApplySecuritySettings ==
    /\ at = "apply_security_settings"
    /\ \E succeeded \in SUBSET { k \in KeySet(SecurityKeys) :
                                    desired.security[k] = "True" } :
          github' = [github EXCEPT !.security =
                       [k \in KeySet(SecurityKeys) |->
                          IF k \in succeeded THEN "True" ELSE @[k]]]
    /\ at' = "verify_settings"
    /\ UNCHANGED <<not_settings, desired, gh_codes, current,
                   current_security, diff, all_passed, exit_code>>

\* main, lines 421-427: verify_settings, sys.exit(1) when it fails
VerifySettings ==
    /\ at = "verify_settings"
    /\ \E codes \in GhCodes(github) : Fetch(codes)
    /\ all_passed' = PyBool(verify_settings(current', current_security',
                                            desired))
    /\ exit_code' = IF all_passed' = "True" THEN 0 ELSE 1
    /\ at' = "verified"
    /\ UNCHANGED <<not_settings, desired, github, diff>>

NextSettings ==
    \/ ComputeDiff
    \/ ApplyRepoSettings
    \/ ApplySecuritySettings
    \/ VerifySettings

SpecSettings == InitSettings /\ [][NextSettings]_vars

\* every setting of the repository on GitHub has the desired value, and
\* every gh query of the fetch exited with 0
Converged == github = desired
AllQueriesSucceeded == \A q \in Queries : gh_codes[q] = 0

\* C30: setup-repo-settings converges: for every desired configuration, if
\* every feature, merge and security setting of the repository on GitHub
\* equals the desired value and every gh query succeeds (gh exits with 0),
\* compute_diff returns an empty changes list and verify_settings returns
\* True, so that apply followed by verify exits with code 0.
C30_ConvergedMeansNoChanges ==
    /\ (at = "diffed" /\ Converged /\ AllQueriesSucceeded)
          => diff = [changes |-> <<>>]
    /\ (at = "verified" /\ Converged /\ AllQueriesSucceeded)
          => (all_passed = "True" /\ exit_code = 0)

====
